---- MODULE Spec2Model ----
(***************************************************************************)
(* The declaration database of the versioner tool                          *)
(* (tools/versioner/src/DeclarationDatabase.cpp): the availability merge,  *)
(* the per-declaration and per-symbol reductions, the population visitor   *)
(* and the mutex-guarded ingestion entry point HeaderDatabase::parseAST.   *)
(***************************************************************************)
EXTENDS Integers, Sequences, FiniteSets, TLC

VARIABLES
  symbols,      \* HeaderDatabase::symbols : name -> Symbol
  mutex,        \* HeaderDatabase::mutex : the worker holding it, or NoOwner
  pc,           \* per worker: where it is in its parseAST call
  visited,      \* per worker: the declarations its traversal has visited so far
  exit_status,  \* "running", or how the process ended ("abort", "errx")
  self,         \* merge playground: the record merge is called on (this)
  other,        \* merge playground: the argument of the last merge call
  self_before,  \* merge playground: *this before the last merge call
  merge_ret,    \* merge playground: what the last merge call returned
  merged,       \* merge playground: the records merged into self so far
  merge_calls,  \* merge playground: the number of merge calls made
  query,        \* the reduction or hasDeclaration call that returned last, when
                \* no ingestion has followed it: its arguments, what it
                \* returned and the caller's *output before and after it
  visit,        \* sequential ingestion: the live Visitor's configuration, the
                \* Decls it has visited, the last one and the symbol map before it
  annot,        \* annotation loop: the availability being built (line 138), the
                \* annotation applied last and the availability before it
  rendered,     \* the last to_string call: its argument and the text returned
  readers       \* per reader thread: the query it is running or has returned
                \* from, its place in the loops, its local records and what
                \* it returned

vars == <<symbols, mutex, pc, visited, exit_status,
          self, other, self_before, merge_ret, merged, merge_calls,
          query, visit, annot, rendered, readers>>

dbVars    == <<symbols, mutex, pc, visited, exit_status>>
mergeVars == <<self, other, self_before, merge_ret, merged, merge_calls>>
queryVars == <<query>>
visitVars == <<visit>>
annotVars == <<annot>>
renderVars == <<rendered>>
readerVars == <<readers>>

(***************************************************************************)
(* Bounds of the model.                                                    *)
(***************************************************************************)
NumWorkers == 2     \* parse jobs running HeaderDatabase::parseAST
MaxVisits  == 3     \* declarations visited by all traversals together
MaxMerges  == 3     \* merge calls made on the playground record
MaxEntries == 3     \* configuration entries the sequential caller ingests
MaxDecls   == 3     \* declarations visited by the sequential caller's traversals
MaxAnnotations == 3 \* annotations applied to one availability record

(***************************************************************************)
(* Identity model: architectures, configurations, locations.               *)
(***************************************************************************)
supported_archs == <<"arm", "arm64", "mips", "mips64", "x86", "x86_64">>

Archs == {supported_archs[i] : i \in 1..Len(supported_archs)}

ArchIndex(arch) == CHOOSE i \in 1..Len(supported_archs) : supported_archs[i] = arch

CompilationType(arch, api_level) == [arch |-> arch, api_level |-> api_level]

\* std::map<CompilationType, ...> iterates in this order.
CompilationTypeLess(a, b) ==
  \/ ArchIndex(a.arch) < ArchIndex(b.arch)
  \/ a.arch = b.arch /\ a.api_level < b.api_level

\* Location::filename is a std::string: the sequence of its bytes.
Location(filename, line, column, end_line, end_column) ==
  [filename |-> filename,
   start |-> [line |-> line, column |-> column],
   end |-> [line |-> end_line, column |-> end_column]]

\* std::string::operator< on file names: a file name is the sequence of its
\* bytes, each from 0 to 255, compared as unsigned values; the first byte
\* that differs decides, a proper prefix is less than the longer string.
RECURSIVE StringLess(_, _)
StringLess(a, b) ==
  IF b = <<>> THEN FALSE
  ELSE IF a = <<>> THEN TRUE
  ELSE IF Head(a) # Head(b) THEN Head(a) < Head(b)
  ELSE StringLess(Tail(a), Tail(b))

\* std::map<Location, Declaration> iterates in this order: the file name
\* first, then the start and the end of the range.
LocationLess(a, b) ==
  \/ a.filename # b.filename /\ StringLess(a.filename, b.filename)
  \/ a.filename = b.filename /\ a.start.line < b.start.line
  \/ a.filename = b.filename /\ a.start.line = b.start.line
       /\ a.start.column < b.start.column
  \/ a.filename = b.filename /\ a.start = b.start /\ a.end.line < b.end.line
  \/ a.filename = b.filename /\ a.start = b.start /\ a.end.line = b.end.line
       /\ a.end.column < b.end.column

(***************************************************************************)
(* Availability records.                                                   *)
(***************************************************************************)
AvailabilityValues(future, introduced, deprecated, obsoleted) ==
  [future |-> future, introduced |-> introduced,
   deprecated |-> deprecated, obsoleted |-> obsoleted]

NoValues == AvailabilityValues(FALSE, 0, 0, 0)

\* AvailabilityValues::empty
empty(av) ==
  ~(av.future \/ av.introduced # 0 \/ av.deprecated # 0 \/ av.obsoleted # 0)

\* AvailabilityValues::operator!=
ValuesDiffer(a, b) == a # b

NoAvailability ==
  [global_availability |-> NoValues,
   arch_availability |-> [a \in Archs |-> NoValues]]

(***************************************************************************)
(* DeclarationAvailability::merge.  The macro check_avail accumulates the  *)
(* error flag; the assignment follows the check, slot by slot.             *)
(***************************************************************************)
\* Mutant of check_avail: the test that this slot is set is left out.
check_availNoEmptyTest(mine, theirs) == ValuesDiffer(mine, theirs)

\* Mutant of check_avail: two values conflict only where both set the same
\* integer field to different numbers.
check_availFieldwise(mine, theirs) == (mine.introduced # 0 /\ theirs.introduced # 0 /\ mine.introduced # theirs.introduced) \/ (mine.deprecated # 0 /\ theirs.deprecated # 0 /\ mine.deprecated # theirs.deprecated) \/ (mine.obsoleted # 0 /\ theirs.obsoleted # 0 /\ mine.obsoleted # theirs.obsoleted)

\* Line 219: the macro's right-hand side.
check_avail(mine, theirs) == ~empty(mine) /\ ValuesDiffer(mine, theirs)

\* Mutant of mergeGlobal: the slot is assigned also when other's is empty.
mergeGlobalUnguarded(this, that, error) ==
  [error |-> error \/ (~empty(that.global_availability) /\
                        check_avail(this.global_availability,
                                    that.global_availability)),
   this  |-> [this EXCEPT !.global_availability = that.global_availability]]

\* Lines 222-225: the global slot.
mergeGlobal(this, that, error) ==
  IF ~empty(that.global_availability)
    THEN [error |-> error \/ check_avail(this.global_availability,
                                          that.global_availability),
          this  |-> [this EXCEPT !.global_availability = that.global_availability]]
    ELSE [error |-> error, this |-> this]

\* Mutant of mergeArch: the error flag is assigned, not or-ed.
mergeArchLastError(this, that, error, arch) ==
  IF ~empty(that.arch_availability[arch])
    THEN [error |-> check_avail(this.arch_availability[arch],
                                that.arch_availability[arch]),
          this  |-> [this EXCEPT !.arch_availability[arch] =
                                    that.arch_availability[arch]]]
    ELSE [error |-> error, this |-> this]

\* Mutant of mergeArch: a slot that conflicts keeps the value it has.
mergeArchKeepOnConflict(this, that, error, arch) ==
  IF ~empty(that.arch_availability[arch])
    THEN [error |-> error \/ check_avail(this.arch_availability[arch],
                                          that.arch_availability[arch]),
          this  |-> IF check_avail(this.arch_availability[arch],
                                   that.arch_availability[arch])
                      THEN this
                      ELSE [this EXCEPT !.arch_availability[arch] =
                                          that.arch_availability[arch]]]
    ELSE [error |-> error, this |-> this]

\* Mutant of mergeArch: the slot is assigned also when other's is empty.
mergeArchUnguarded(this, that, error, arch) ==
  [error |-> error \/ (~empty(that.arch_availability[arch]) /\
                        check_avail(this.arch_availability[arch],
                                    that.arch_availability[arch])),
   this  |-> [this EXCEPT !.arch_availability[arch] = that.arch_availability[arch]]]

\* Lines 228-231: one iteration of the loop over supported_archs.
mergeArch(this, that, error, arch) ==
  IF ~empty(that.arch_availability[arch])
    THEN [error |-> error \/ check_avail(this.arch_availability[arch],
                                          that.arch_availability[arch]),
          this  |-> [this EXCEPT !.arch_availability[arch] =
                                    that.arch_availability[arch]]]
    ELSE [error |-> error, this |-> this]

RECURSIVE mergeArchs(_, _, _, _)
\* Lines 227-232: the loop, from the i-th architecture on.
mergeArchs(this, that, error, i) ==
  IF i > Len(supported_archs)
    THEN [error |-> error, this |-> this]
    ELSE LET step == mergeArch(this, that, error, supported_archs[i])
         IN  mergeArchs(step.this, that, step.error, i + 1)

\* DeclarationAvailability::merge: the return value and *this afterwards.
merge(this, that) ==
  LET g == mergeGlobal(this, that, FALSE)
      a == mergeArchs(g.this, that, g.error, 1)
  IN  [ret |-> ~a.error, this |-> a.this]

(***************************************************************************)
(* The merge playground: one DeclarationAvailability, default-constructed, *)
(* and merge called on it with records drawn from MergeInputs.             *)
(***************************************************************************)
MergeValues ==
  {NoValues,
   AvailabilityValues(FALSE, 9, 0, 0),
   AvailabilityValues(FALSE, 14, 0, 0),
   AvailabilityValues(FALSE, 0, 14, 0),
   AvailabilityValues(TRUE, 9, 0, 0)}

MergeArchValues ==
  {NoValues, AvailabilityValues(FALSE, 9, 0, 0), AvailabilityValues(FALSE, 14, 0, 0)}

MergeInputs ==
  {[global_availability |-> g,
    arch_availability |->
      [a \in Archs |-> IF a = "arm" THEN x ELSE IF a = "x86_64" THEN y ELSE NoValues]] :
     g \in MergeValues, x \in MergeArchValues,
     y \in {NoValues, AvailabilityValues(FALSE, 9, 0, 0)}}

InitMergeVars ==
  /\ self = NoAvailability
  /\ other = NoAvailability
  /\ self_before = NoAvailability
  /\ merge_ret = TRUE
  /\ merged = {}
  /\ merge_calls = 0

\* self.merge(that)
Merge(that) ==
  /\ merge_calls < MaxMerges
  /\ LET r == merge(self, that)
     IN  /\ self' = r.this
         /\ merge_ret' = r.ret
  /\ other' = that
  /\ self_before' = self
  /\ merged' = merged \cup {that}
  /\ merge_calls' = merge_calls + 1
  /\ UNCHANGED <<dbVars, queryVars, visitVars, annotVars, renderVars, readerVars>>

(***************************************************************************)
(* What the parser hands the visitor: one record per Decl of the tree.     *)
(* An annotation is the sequence of its tokens; "=" is a token of its own  *)
(* and an integer operand is spelled digit by digit.                       *)
(***************************************************************************)
NoIdentifier == ""

DeclNode(kind, identifier, location, definition, annotations) ==
  [parent_function  |-> FALSE,       \* getParentFunctionOrMethod() != nullptr
   named            |-> TRUE,        \* dyn_cast<NamedDecl> succeeds
   kind             |-> kind,        \* "function", "var" or "other"
   file_var         |-> TRUE,        \* VarDecl::isFileVarDecl
   definition       |-> definition,  \* isThisDeclarationADefinition
   external_linkage |-> TRUE,        \* getFormalLinkage() == ExternalLinkage
   should_mangle    |-> FALSE,       \* MangleContext::shouldMangleDeclName
   mangled          |-> "",          \* MangleContext::mangleName
   identifier       |-> identifier,  \* getIdentifier(), NoIdentifier when null
   unavailable      |-> FALSE,       \* hasAttr<UnavailableAttr>
   location         |-> location,    \* the presumed start and end locations
   annotations      |-> annotations] \* the AnnotateAttr strings, in order

\* Mutant of getDeclName: the identifier is preferred to the mangled name.
getDeclNameIdentifierFirst(decl) ==
  IF decl.kind = "var" /\ ~decl.file_var THEN "<local var>"
  ELSE IF decl.identifier # NoIdentifier THEN decl.identifier
  ELSE IF decl.should_mangle THEN decl.mangled
  ELSE "<error>"

\* Visitor::getDeclName
getDeclName(decl) ==
  IF decl.kind = "var" /\ ~decl.file_var THEN "<local var>"
  ELSE IF decl.should_mangle THEN decl.mangled
  ELSE IF decl.identifier = NoIdentifier THEN "<error>"
  ELSE decl.identifier

RECURSIVE Split(_, _)
\* llvm::StringRef::split(fragments, "="): every separator starts a new
\* fragment, empty fragments are kept.
Split(annotation, sep) ==
  IF \A i \in 1..Len(annotation) : annotation[i] # sep
    THEN <<annotation>>
    ELSE LET k == CHOOSE i \in 1..Len(annotation) :
                    /\ annotation[i] = sep
                    /\ \A j \in 1..(i - 1) : annotation[j] # sep
         IN  <<SubSeq(annotation, 1, k - 1)>> \o
             Split(SubSeq(annotation, k + 1, Len(annotation)), sep)

DigitValue ==
  [c \in {"0", "1", "2", "3", "4", "5", "6", "7", "8", "9"} |->
     CASE c = "0" -> 0 [] c = "1" -> 1 [] c = "2" -> 2 [] c = "3" -> 3
       [] c = "4" -> 4 [] c = "5" -> 5 [] c = "6" -> 6 [] c = "7" -> 7
       [] c = "8" -> 8 [] c = "9" -> 9]

IntMin == (0 - 2147483647) - 1

RECURSIVE DigitsValue(_, _)
\* The digits accumulated as a negative number, so that every int is reached;
\* 1 when the number does not fit an int's magnitude.
DigitsValue(digits, acc) ==
  IF digits = <<>> THEN acc
  ELSE LET d == DigitValue[Head(digits)]
       IN  IF acc < (IntMin + d + 9) \div 10 THEN 1
           ELSE DigitsValue(Tail(digits), 10 * acc - d)

\* llvm::StringRef::getAsInteger(10, int&): failed is what it returns.
getAsInteger(text) ==
  LET negative == text # <<>> /\ Head(text) = "-"
      digits   == IF negative THEN Tail(text) ELSE text
      wellformed == digits # <<>> /\
                    \A i \in 1..Len(digits) : digits[i] \in DOMAIN DigitValue
      below == IF wellformed THEN DigitsValue(digits, 0) ELSE 1
      fits  == below <= 0 /\ (negative \/ below > IntMin)
  IN  [failed |-> ~(wellformed /\ fits),
       value  |-> IF wellformed /\ fits
                    THEN (IF negative THEN below ELSE 0 - below)
                    ELSE 0]

\* Mutant of prefix_map: introduced_in_32 points at mips64 where it should
\* point at mips.
prefix_mapWrongFanOut ==
  [p \in {"introduced_in", "deprecated_in", "obsoleted_in", "introduced_in_arm",
          "introduced_in_mips", "introduced_in_x86", "introduced_in_32",
          "introduced_in_64"} |->
     CASE p = "introduced_in"      -> {<<"global", "introduced">>}
       [] p = "deprecated_in"      -> {<<"global", "deprecated">>}
       [] p = "obsoleted_in"       -> {<<"global", "obsoleted">>}
       [] p = "introduced_in_arm"  -> {<<"arm", "introduced">>}
       [] p = "introduced_in_mips" -> {<<"mips", "introduced">>}
       [] p = "introduced_in_x86"  -> {<<"x86", "introduced">>}
       [] p = "introduced_in_32"   -> {<<"arm", "introduced">>, <<"mips64", "introduced">>,
                                       <<"x86", "introduced">>}
       [] p = "introduced_in_64"   -> {<<"arm64", "introduced">>, <<"mips64", "introduced">>,
                                       <<"x86_64", "introduced">>}]

\* Lines 155-170: prefix -> the (slot, field) pairs the operand is stored to.
prefix_map ==
  [p \in {"introduced_in", "deprecated_in", "obsoleted_in", "introduced_in_arm",
          "introduced_in_mips", "introduced_in_x86", "introduced_in_32",
          "introduced_in_64"} |->
     CASE p = "introduced_in"      -> {<<"global", "introduced">>}
       [] p = "deprecated_in"      -> {<<"global", "deprecated">>}
       [] p = "obsoleted_in"       -> {<<"global", "obsoleted">>}
       [] p = "introduced_in_arm"  -> {<<"arm", "introduced">>}
       [] p = "introduced_in_mips" -> {<<"mips", "introduced">>}
       [] p = "introduced_in_x86"  -> {<<"x86", "introduced">>}
       [] p = "introduced_in_32"   -> {<<"arm", "introduced">>, <<"mips", "introduced">>,
                                       <<"x86", "introduced">>}
       [] p = "introduced_in_64"   -> {<<"arm64", "introduced">>, <<"mips64", "introduced">>,
                                       <<"x86_64", "introduced">>}]

\* Mutant of StoreValue: a field that holds a value already keeps it.
StoreValueKeepFirst(values, slot, targets, value) ==
  [introduced |-> IF <<slot, "introduced">> \in targets /\ values.introduced = 0
                    THEN value ELSE values.introduced,
   deprecated |-> IF <<slot, "deprecated">> \in targets /\ values.deprecated = 0
                    THEN value ELSE values.deprecated,
   obsoleted  |-> IF <<slot, "obsoleted">> \in targets /\ values.obsoleted = 0
                    THEN value ELSE values.obsoleted,
   future     |-> values.future]

\* Lines 182-184: *ptr = value for every pointer of the prefix.
StoreValue(values, slot, targets, value) ==
  [introduced |-> IF <<slot, "introduced">> \in targets THEN value ELSE values.introduced,
   deprecated |-> IF <<slot, "deprecated">> \in targets THEN value ELSE values.deprecated,
   obsoleted  |-> IF <<slot, "obsoleted">> \in targets THEN value ELSE values.obsoleted,
   future     |-> values.future]

\* Mutant of SetFuture: the flag is set on the global slot.
SetFutureGlobal(availability, type) ==
  [availability EXCEPT !.global_availability.future = TRUE]

\* Line 145: availability.arch_availability[type.arch].future = true.
SetFuture(availability, type) ==
  [availability EXCEPT !.arch_availability[type.arch].future = TRUE]

\* Mutant of ApplyAnnotation: the operand is converted before the prefix is
\* looked up, so a malformed operand is fatal whatever the prefix is.
ApplyAnnotationParseFirst(availability, type, annotation) ==
  IF annotation = <<"introduced_in_future">>
    THEN [failed |-> FALSE, availability |-> SetFuture(availability, type)]
    ELSE LET fragments == Split(annotation, "=")
         IN  IF Len(fragments) # 2
               THEN [failed |-> FALSE, availability |-> availability]
             ELSE IF getAsInteger(fragments[2]).failed
               THEN [failed |-> TRUE, availability |-> availability]
             ELSE IF Len(fragments[1]) # 1 \/ fragments[1][1] \notin DOMAIN prefix_map
               THEN [failed |-> FALSE, availability |-> availability]
             ELSE LET targets == prefix_map[fragments[1][1]]
                      parsed  == getAsInteger(fragments[2])
                  IN  [failed |-> FALSE,
                       availability |->
                         [global_availability |->
                            StoreValue(availability.global_availability,
                                       "global", targets, parsed.value),
                          arch_availability |->
                            [a \in Archs |->
                               StoreValue(availability.arch_availability[a],
                                          a, targets, parsed.value)]]]

\* Lines 142-185: one annotation applied to the availability being built.
ApplyAnnotation(availability, type, annotation) ==
  IF annotation = <<"introduced_in_future">>
    THEN [failed |-> FALSE, availability |-> SetFuture(availability, type)]
    ELSE LET fragments == Split(annotation, "=")
         IN  IF Len(fragments) # 2 \/ Len(fragments[1]) # 1
               THEN [failed |-> FALSE, availability |-> availability]
             ELSE IF fragments[1][1] \notin DOMAIN prefix_map
               THEN [failed |-> FALSE, availability |-> availability]
             ELSE LET targets == prefix_map[fragments[1][1]]
                      parsed  == getAsInteger(fragments[2])
                  IN  IF parsed.failed
                        THEN [failed |-> TRUE, availability |-> availability]
                        ELSE [failed |-> FALSE,
                              availability |->
                                [global_availability |->
                                   StoreValue(availability.global_availability,
                                              "global", targets, parsed.value),
                                 arch_availability |->
                                   [a \in Archs |->
                                      StoreValue(availability.arch_availability[a],
                                                 a, targets, parsed.value)]]]

RECURSIVE ParseAnnotationsSkipMalformed(_, _, _)
\* Mutant of ParseAnnotations: an annotation whose operand does not parse is
\* passed over like one with an unknown prefix.
ParseAnnotationsSkipMalformed(availability, type, annotations) ==
  IF annotations = <<>>
    THEN [failed |-> FALSE, availability |-> availability]
    ELSE LET step == ApplyAnnotation(availability, type, Head(annotations))
         IN  ParseAnnotationsSkipMalformed(step.availability, type, Tail(annotations))

RECURSIVE ParseAnnotations(_, _, _)
\* Lines 138-186: the loop over the declaration's annotations.
ParseAnnotations(availability, type, annotations) ==
  IF annotations = <<>>
    THEN [failed |-> FALSE, availability |-> availability]
    ELSE LET step == ApplyAnnotation(availability, type, Head(annotations))
         IN  IF step.failed THEN step
             ELSE ParseAnnotations(step.availability, type, Tail(annotations))

(***************************************************************************)
(* The database and Visitor::VisitDecl.                                    *)
(***************************************************************************)
EmptyMap == <<>>

\* Mutant of MapInsert: the value is assigned (map[key] = value), so an
\* existing key loses its value.
MapInsertAssign(map, key, value) ==
  [k \in DOMAIN map \cup {key} |-> IF k = key THEN value ELSE map[k]]

\* std::map::insert: an existing key keeps its value.
MapInsert(map, key, value) ==
  IF key \in DOMAIN map THEN map ELSE map @@ (key :> value)

\* Mutant of Classify: the tentative definition does not abort, it is taken
\* for a declaration.
ClassifyNoAbort(decl) ==
  IF decl.parent_function THEN "skip"
  ELSE IF ~decl.named THEN "skip"
  ELSE IF decl.kind = "function"
    THEN (IF decl.unavailable THEN "skip" ELSE "record")
  ELSE IF decl.kind = "var"
    THEN (IF ~decl.file_var THEN "skip"
          ELSE IF decl.unavailable THEN "skip"
          ELSE "record")
  ELSE "skip"

\* Mutant of Classify: the unavailable marker is not looked at.
ClassifyUnavailableRecorded(decl) ==
  IF decl.parent_function THEN "skip"
  ELSE IF ~decl.named THEN "skip"
  ELSE IF decl.kind = "function" THEN "record"
  ELSE IF decl.kind = "var"
    THEN (IF ~decl.file_var THEN "skip"
          ELSE IF decl.definition = "TentativeDefinition" THEN "abort"
          ELSE "record")
  ELSE "skip"

\* Mutant of Classify: the unavailable marker is looked at before the kind of
\* the Decl, so before the tentative-definition check.
ClassifyUnavailableFirst(decl) ==
  IF decl.parent_function THEN "skip"
  ELSE IF ~decl.named THEN "skip"
  ELSE IF decl.unavailable THEN "skip"
  ELSE IF decl.kind = "function" THEN "record"
  ELSE IF decl.kind = "var"
    THEN (IF ~decl.file_var THEN "skip"
          ELSE IF decl.definition = "TentativeDefinition" THEN "abort"
          ELSE "record")
  ELSE "skip"

\* Lines 71-121: whether the declaration reaches the database code, is
\* skipped ("skip") or is the tentative definition that aborts ("abort").
Classify(decl) ==
  IF decl.parent_function THEN "skip"
  ELSE IF ~decl.named THEN "skip"
  ELSE IF decl.kind = "function"
    THEN (IF decl.unavailable THEN "skip" ELSE "record")
  ELSE IF decl.kind = "var"
    THEN (IF ~decl.file_var THEN "skip"
          ELSE IF decl.definition = "TentativeDefinition" THEN "abort"
          ELSE IF decl.unavailable THEN "skip"
          ELSE "record")
  ELSE "skip"

\* Mutant of RecordDeclaration: a varying declaration is not fatal, the
\* flags observed last are kept.
RecordDeclarationLastFlagsWin(symbol, name, location, is_extern, is_definition, type, availability) ==
  LET entries == IF location \in DOMAIN symbol.declarations
                   THEN symbol.declarations[location].availability
                   ELSE EmptyMap
      declaration == [name |-> name,
                      location |-> location,
                      is_extern |-> is_extern,
                      is_definition |-> is_definition,
                      availability |-> MapInsert(entries, type, availability)]
  IN  [status |-> "continue",
       symbol |-> [symbol EXCEPT !.declarations =
                     [l \in DOMAIN symbol.declarations \cup {location} |->
                        IF l = location THEN declaration
                        ELSE symbol.declarations[l]]]]

\* Mutant of RecordDeclaration: the Declaration found is replaced by a new
\* one that holds the current configuration only.
RecordDeclarationReplaceEntries(symbol, name, location, is_extern, is_definition, type, availability) ==
  IF /\ location \in DOMAIN symbol.declarations
     /\ \/ symbol.declarations[location].is_extern # is_extern
        \/ symbol.declarations[location].is_definition # is_definition
    THEN [status |-> "errx", symbol |-> symbol]
    ELSE [status |-> "continue",
          symbol |-> [symbol EXCEPT !.declarations =
                        [l \in DOMAIN symbol.declarations \cup {location} |->
                           IF l = location
                             THEN [name |-> name,
                                   location |-> location,
                                   is_extern |-> is_extern,
                                   is_definition |-> is_definition,
                                   availability |->
                                     MapInsert(EmptyMap, type, availability)]
                             ELSE symbol.declarations[l]]]]

\* Mutant of RecordDeclaration: the error is raised only when is_extern and
\* is_definition both differ.
RecordDeclarationBothDiffer(symbol, name, location, is_extern, is_definition, type, availability) ==
  IF /\ location \in DOMAIN symbol.declarations
     /\ symbol.declarations[location].is_extern # is_extern
     /\ symbol.declarations[location].is_definition # is_definition
    THEN [status |-> "errx", symbol |-> symbol]
    ELSE [status |-> "continue",
          symbol |-> [symbol EXCEPT !.declarations =
                        [l \in DOMAIN symbol.declarations \cup {location} |->
                           IF l \in DOMAIN symbol.declarations
                             THEN [symbol.declarations[l] EXCEPT !.availability =
                                     IF l = location
                                       THEN MapInsert(@, type, availability)
                                       ELSE @]
                             ELSE [name |-> name,
                                   location |-> location,
                                   is_extern |-> is_extern,
                                   is_definition |-> is_definition,
                                   availability |->
                                     MapInsert(EmptyMap, type, availability)]]]]

\* Mutant of RecordDeclaration: the configuration's entry is assigned
\* (availability[type] = availability), so a second record replaces the first.
RecordDeclarationOverwriteEntry(symbol, name, location, is_extern, is_definition, type, availability) ==
  IF /\ location \in DOMAIN symbol.declarations
     /\ \/ symbol.declarations[location].is_extern # is_extern
        \/ symbol.declarations[location].is_definition # is_definition
    THEN [status |-> "errx", symbol |-> symbol]
    ELSE LET entries == IF location \in DOMAIN symbol.declarations
                          THEN symbol.declarations[location].availability
                          ELSE EmptyMap
         IN  [status |-> "continue",
              symbol |-> [symbol EXCEPT !.declarations =
                            [l \in DOMAIN symbol.declarations \cup {location} |->
                               IF l = location
                                 THEN [name |-> name,
                                       location |-> location,
                                       is_extern |-> is_extern,
                                       is_definition |-> is_definition,
                                       availability |->
                                         [t \in DOMAIN entries \cup {type} |->
                                            IF t = type THEN availability
                                            ELSE entries[t]]]
                                 ELSE symbol.declarations[l]]]]

\* Mutant of RecordDeclaration: the new record is merged into the records the
\* Declaration holds, and a failed merge is fatal like varying flags are.
RecordDeclarationChecksConflict(symbol, name, location, is_extern, is_definition, type, availability) ==
  IF /\ location \in DOMAIN symbol.declarations
     /\ \/ symbol.declarations[location].is_extern # is_extern
        \/ symbol.declarations[location].is_definition # is_definition
        \/ \E t \in DOMAIN symbol.declarations[location].availability :
             ~merge(symbol.declarations[location].availability[t], availability).ret
    THEN [status |-> "errx", symbol |-> symbol]
    ELSE LET entries == IF location \in DOMAIN symbol.declarations
                          THEN symbol.declarations[location].availability
                          ELSE EmptyMap
         IN  [status |-> "continue",
              symbol |-> [symbol EXCEPT !.declarations =
                            [l \in DOMAIN symbol.declarations \cup {location} |->
                               IF l = location
                                 THEN [name |-> name,
                                       location |-> location,
                                       is_extern |-> is_extern,
                                       is_definition |-> is_definition,
                                       availability |->
                                         MapInsert(entries, type, availability)]
                                 ELSE symbol.declarations[l]]]]

\* Mutant of RecordDeclaration: a Declaration at a new location takes the place
\* of the Declarations the Symbol held.
RecordDeclarationSingleLocation(symbol, name, location, is_extern, is_definition, type, availability) ==
  IF location \notin DOMAIN symbol.declarations
    THEN [status |-> "continue",
          symbol |-> [symbol EXCEPT !.declarations =
                        MapInsert(EmptyMap, location,
                                  [name |-> name,
                                   location |-> location,
                                   is_extern |-> is_extern,
                                   is_definition |-> is_definition,
                                   availability |->
                                     MapInsert(EmptyMap, type, availability)])]]
    ELSE LET declaration == symbol.declarations[location]
         IN  IF declaration.is_extern # is_extern \/
                declaration.is_definition # is_definition
               THEN [status |-> "errx", symbol |-> symbol]
               ELSE [status |-> "continue",
                     symbol |-> [symbol EXCEPT !.declarations[location].availability =
                                   MapInsert(declaration.availability, type,
                                             availability)]]

\* Mutant of RecordDeclaration: the name of a new Declaration is left as
\* constructed, the empty string.
RecordDeclarationUnnamed(symbol, name, location, is_extern, is_definition, type, availability) ==
  IF location \notin DOMAIN symbol.declarations
    THEN [status |-> "continue",
          symbol |-> [symbol EXCEPT !.declarations =
                        MapInsert(symbol.declarations, location,
                                  [name |-> "",
                                   location |-> location,
                                   is_extern |-> is_extern,
                                   is_definition |-> is_definition,
                                   availability |->
                                     MapInsert(EmptyMap, type, availability)])]]
    ELSE LET declaration == symbol.declarations[location]
         IN  IF declaration.is_extern # is_extern \/
                declaration.is_definition # is_definition
               THEN [status |-> "errx", symbol |-> symbol]
               ELSE [status |-> "continue",
                     symbol |-> [symbol EXCEPT !.declarations[location].availability =
                                   MapInsert(declaration.availability, type,
                                             availability)]]

\* Lines 195-212: find or insert the Declaration, then record the configuration.
RecordDeclaration(symbol, name, location, is_extern, is_definition, type, availability) ==
  IF location \notin DOMAIN symbol.declarations
    THEN [status |-> "continue",
          symbol |-> [symbol EXCEPT !.declarations =
                        MapInsert(symbol.declarations, location,
                                  [name |-> name,
                                   location |-> location,
                                   is_extern |-> is_extern,
                                   is_definition |-> is_definition,
                                   availability |->
                                     MapInsert(EmptyMap, type, availability)])]]
    ELSE LET declaration == symbol.declarations[location]
         IN  IF declaration.is_extern # is_extern \/
                declaration.is_definition # is_definition
               THEN [status |-> "errx", symbol |-> symbol]
               ELSE [status |-> "continue",
                     symbol |-> [symbol EXCEPT !.declarations[location].availability =
                                   MapInsert(declaration.availability, type,
                                             availability)]]

\* Visitor::VisitDecl: "continue" and the database afterwards, or how the
\* process ended ("abort", "errx") with the database as it was left.
VisitDecl(db, type, decl) ==
  LET class == Classify(decl)
  IN  IF class = "skip" THEN [status |-> "continue", symbols |-> db]
      ELSE IF class = "abort" THEN [status |-> "abort", symbols |-> db]
      ELSE
        LET declaration_name == getDeclName(decl)
            is_extern     == decl.external_linkage
            is_definition == decl.definition = "Definition"
            parsed == ParseAnnotations(NoAvailability, type, decl.annotations)
        IN  IF parsed.failed THEN [status |-> "errx", symbols |-> db]
            ELSE
              LET with_symbol == MapInsert(db, declaration_name,
                                           [name |-> declaration_name,
                                            declarations |-> EmptyMap])
                  recorded == RecordDeclaration(with_symbol[declaration_name],
                                                declaration_name, decl.location,
                                                is_extern, is_definition, type,
                                                parsed.availability)
              IN  [status  |-> recorded.status,
                   symbols |-> [with_symbol EXCEPT ![declaration_name] =
                                  recorded.symbol]]

RECURSIVE TraverseDecl(_, _, _)
\* RecursiveASTVisitor::TraverseDecl: VisitDecl on every Decl of the tree, in
\* order, up to the one that ends the process.
TraverseDecl(db, type, tree) ==
  IF tree = <<>> THEN [status |-> "continue", symbols |-> db]
  ELSE LET step == VisitDecl(db, type, Head(tree))
       IN  IF step.status # "continue" THEN step
           ELSE TraverseDecl(step.symbols, type, Tail(tree))

(***************************************************************************)
(* The reductions.  A std::map is iterated in the order of its keys.       *)
(***************************************************************************)
\* The keys of Declaration::availability as a range-for visits them.
TypesInOrder(keys) ==
  CHOOSE order \in [1..Cardinality(keys) -> keys] :
    \A i \in DOMAIN order, j \in DOMAIN order :
      i < j => CompilationTypeLess(order[i], order[j])

\* The keys of Symbol::declarations as a range-for visits them.
LocationsInOrder(keys) ==
  CHOOSE order \in [1..Cardinality(keys) -> keys] :
    \A i \in DOMAIN order, j \in DOMAIN order :
      i < j => LocationLess(order[i], order[j])

\* Mutant of FoldAvailability: a failed merge does not end the loop, the
\* result of the last merge is returned.
RECURSIVE FoldAvailabilityLastResult(_, _)
FoldAvailabilityLastResult(avail, records) ==
  IF records = <<>> THEN [ret |-> TRUE, avail |-> avail]
  ELSE LET m == merge(avail, Head(records))
       IN  IF Tail(records) = <<>> THEN [ret |-> m.ret, avail |-> m.this]
           ELSE FoldAvailabilityLastResult(m.this, Tail(records))

RECURSIVE FoldAvailability(_, _)
\* Lines 239-246: the loop of Declaration::calculateAvailability over the
\* records, from the accumulator avail; ret = FALSE is the early return.
FoldAvailability(avail, records) ==
  IF records = <<>> THEN [ret |-> TRUE, avail |-> avail]
  ELSE LET m == merge(avail, Head(records))
       IN  IF ~m.ret THEN [ret |-> FALSE, avail |-> m.this]
           ELSE FoldAvailability(m.this, Tail(records))

\* Declaration::calculateAvailability: ret, and what is written to *output
\* when ret is TRUE.
Declaration_calculateAvailability(declaration) ==
  LET order == TypesInOrder(DOMAIN declaration.availability)
  IN  FoldAvailability(NoAvailability,
                       [i \in DOMAIN order |-> declaration.availability[order[i]]])

RECURSIVE SymbolLoopAllDeclarations(_, _, _)
\* Mutant of SymbolLoop: definitions are reduced too.
SymbolLoopAllDeclarations(avail, symbol, locations) ==
  IF locations = <<>> THEN [ret |-> TRUE, avail |-> avail]
  ELSE LET d == Declaration_calculateAvailability(symbol.declarations[Head(locations)])
       IN  IF ~d.ret THEN [ret |-> FALSE, avail |-> avail]
           ELSE LET m == merge(avail, d.avail)
                IN  IF ~m.ret THEN [ret |-> FALSE, avail |-> m.this]
                    ELSE SymbolLoopAllDeclarations(m.this, symbol, Tail(locations))

RECURSIVE SymbolLoopNoCrossCheck(_, _, _)
\* Mutant of SymbolLoop: the result of merging a declaration's record into
\* the symbol's is not looked at.
SymbolLoopNoCrossCheck(avail, symbol, locations) ==
  IF locations = <<>> THEN [ret |-> TRUE, avail |-> avail]
  ELSE LET declaration == symbol.declarations[Head(locations)]
       IN  IF declaration.is_definition
             THEN SymbolLoopNoCrossCheck(avail, symbol, Tail(locations))
           ELSE LET d == Declaration_calculateAvailability(declaration)
                IN  IF ~d.ret THEN [ret |-> FALSE, avail |-> avail]
                    ELSE SymbolLoopNoCrossCheck(merge(avail, d.avail).this, symbol,
                                                Tail(locations))

RECURSIVE SymbolLoop(_, _, _)
\* Lines 251-266: the loop of Symbol::calculateAvailability over the
\* declarations at the given locations.
SymbolLoop(avail, symbol, locations) ==
  IF locations = <<>> THEN [ret |-> TRUE, avail |-> avail]
  ELSE LET declaration == symbol.declarations[Head(locations)]
       IN  IF declaration.is_definition
             THEN SymbolLoop(avail, symbol, Tail(locations))
           ELSE LET d == Declaration_calculateAvailability(declaration)
                IN  IF ~d.ret THEN [ret |-> FALSE, avail |-> avail]
                    ELSE LET m == merge(avail, d.avail)
                         IN  IF ~m.ret THEN [ret |-> FALSE, avail |-> m.this]
                             ELSE SymbolLoop(m.this, symbol, Tail(locations))

\* Symbol::calculateAvailability: ret, and what is written to *output when
\* ret is TRUE.
Symbol_calculateAvailability(symbol) ==
  SymbolLoop(NoAvailability, symbol,
             LocationsInOrder(DOMAIN symbol.declarations))

\* Mutant of hasDeclaration: a configuration of the same architecture counts.
hasDeclarationOfArch(symbol, type) ==
  \E location \in DOMAIN symbol.declarations :
    \E compilation \in DOMAIN symbol.declarations[location].availability :
      compilation.arch = type.arch

\* Mutant of hasDeclaration: the API levels are compared, the architectures
\* are not.
hasDeclarationOfLevel(symbol, type) ==
  \E location \in DOMAIN symbol.declarations :
    \E compilation \in DOMAIN symbol.declarations[location].availability :
      compilation.api_level = type.api_level

\* Symbol::hasDeclaration
hasDeclaration(symbol, type) ==
  \E location \in DOMAIN symbol.declarations :
    \E compilation \in DOMAIN symbol.declarations[location].availability :
      compilation = type

(***************************************************************************)
(* Concurrent ingestion: NumWorkers parse jobs, one configuration each,    *)
(* every job calling HeaderDatabase::parseAST once on its own tree.        *)
(***************************************************************************)
Workers == 1..NumWorkers

NoOwner == 0

\* The thread of the sequential caller.
Caller == CHOOSE w \in Workers : \A v \in Workers : w <= v

JobTypes ==
  <<CompilationType("arm", 9), CompilationType("arm64", 21),
    CompilationType("x86", 9), CompilationType("arm", 21),
    CompilationType("mips64", 21)>>

JobType(w) == JobTypes[w]

\* The bytes of the file names "a.h" and "b.h".
FileA == <<97, 46, 104>>
FileB == <<98, 46, 104>>

HeaderLine1 == Location(FileA, 1, 1, 1, 20)
HeaderLine5 == Location(FileA, 5, 1, 5, 20)
\* A declaration in a second header: its line is before HeaderLine5, its file
\* name after.
OtherHeaderLine1 == Location(FileB, 1, 1, 1, 20)

\* The declarations the trees of the concurrent jobs are made of.
DeclPool ==
  {DeclNode("function", "foo", HeaderLine1, "DeclarationOnly",
            <<<<"introduced_in", "=", "9">>>>),
   DeclNode("function", "foo", HeaderLine1, "DeclarationOnly",
            <<<<"introduced_in", "=", "2", "1">>>>),
   DeclNode("function", "foo", HeaderLine1, "Definition", <<>>),
   DeclNode("function", "foo", HeaderLine5, "DeclarationOnly",
            <<<<"introduced_in_future">>,
              <<"introduced_in_32", "=", "2", "1">>>>),
   DeclNode("var", "bar", HeaderLine1, "DeclarationOnly",
            <<<<"introduced_in", "=", "9">>>>),
   DeclNode("var", "baz", HeaderLine5, "TentativeDefinition", <<>>),
   DeclNode("function", "qux", HeaderLine5, "DeclarationOnly",
            <<<<"introduced_in", "=", "x">>>>),
   [DeclNode("var", "i", HeaderLine5, "Definition", <<>>) EXCEPT
      !.parent_function = TRUE, !.file_var = FALSE]}

RECURSIVE VisitsOf(_)
VisitsOf(w) == IF w = 0 THEN 0 ELSE Len(visited[w]) + VisitsOf(w - 1)

NoQuery == [op |-> "none"]

InitDbVars ==
  /\ symbols = EmptyMap
  /\ mutex = NoOwner
  /\ pc = [w \in Workers |-> "idle"]
  /\ visited = [w \in Workers |-> <<>>]
  /\ exit_status = "running"

InitQueryVars == query = NoQuery

(***************************************************************************)
(* Reader threads: each calls the reductions and hasDeclaration, which     *)
(* take no lock, and runs their loops one map entry at a time.             *)
(***************************************************************************)
\* The threads that run queries side by side.
NumReaders == 2

Readers == 1..NumReaders

\* The thread is in no call, and the result of its last call is not kept.
IdleReader == [pc |-> "idle"]

InitReaderVars == readers = [r \in Readers |-> IdleReader]

\* The reader thread when HeaderDatabase::parseAST has run: a call it was in
\* has read the maps while they were written, and what it returned before
\* was an answer on the database before the ingestion.
AfterIngestion(reader) ==
  CASE reader.pc = "running" -> [pc |-> "raced"]
    [] reader.pc = "returned" -> IdleReader
    [] OTHER -> reader

\* No parseAST call of the sequential caller has started.
NoVisit == [op |-> "none", visits |-> 0]

InitVisitVars == visit = NoVisit

\* No declaration's annotation loop has started.
NoAnnotations == [op |-> "none"]

InitAnnotVars == annot = NoAnnotations

NoRendering == [op |-> "none"]

InitRenderVars == rendered = NoRendering

Init ==
  /\ InitDbVars /\ InitMergeVars /\ InitQueryVars
  /\ InitVisitVars /\ InitAnnotVars /\ InitRenderVars /\ InitReaderVars

\* Mutant of parseAST_lock: the lock is taken without waiting for it.
parseAST_lockNoWait(w) ==
  /\ exit_status = "running"
  /\ pc[w] = "idle"
  /\ mutex' = w
  /\ pc' = [pc EXCEPT ![w] = "traversing"]
  /\ UNCHANGED <<symbols, visited, exit_status, mergeVars, queryVars, visitVars, annotVars, renderVars, readerVars>>

\* Line 283: std::unique_lock<std::mutex> lock(this->mutex).
parseAST_lock(w) ==
  /\ exit_status = "running"
  /\ pc[w] = "idle"
  /\ mutex = NoOwner
  /\ mutex' = w
  /\ pc' = [pc EXCEPT ![w] = "traversing"]
  /\ UNCHANGED <<symbols, visited, exit_status, mergeVars, queryVars, visitVars, annotVars, renderVars, readerVars>>

\* Mutant of parseAST_visit: the traversal goes on after abort() or errx().
parseAST_visitAfterExit(w) ==
  /\ pc[w] = "traversing"
  /\ VisitsOf(NumWorkers) < MaxVisits
  /\ \E decl \in DeclPool :
       LET r == VisitDecl(symbols, JobType(w), decl)
       IN  /\ visited' = [visited EXCEPT ![w] = Append(@, decl)]
           /\ symbols' = r.symbols
           /\ exit_status' = IF r.status = "continue" THEN exit_status ELSE r.status
  /\ UNCHANGED <<mutex, pc, mergeVars, queryVars, visitVars, annotVars, renderVars, readerVars>>

\* Line 286: the traversal reaches its next Decl and calls VisitDecl on it.
parseAST_visit(w) ==
  /\ exit_status = "running"
  /\ pc[w] = "traversing"
  /\ VisitsOf(NumWorkers) < MaxVisits
  /\ \E decl \in DeclPool :
       LET r == VisitDecl(symbols, JobType(w), decl)
       IN  /\ visited' = [visited EXCEPT ![w] = Append(@, decl)]
           /\ symbols' = r.symbols
           /\ exit_status' = IF r.status = "continue" THEN "running" ELSE r.status
  /\ UNCHANGED <<mutex, pc, mergeVars, queryVars, visitVars, annotVars, renderVars, readerVars>>

\* Mutant of parseAST_return: parseAST returns with the mutex still held.
parseAST_returnKeepsLock(w) ==
  /\ exit_status = "running"
  /\ pc[w] = "traversing"
  /\ pc' = [pc EXCEPT ![w] = "returned"]
  /\ UNCHANGED <<symbols, mutex, visited, exit_status, mergeVars, queryVars, visitVars, annotVars, renderVars, readerVars>>

\* Line 287: the traversal is over, parseAST returns and the lock is released.
parseAST_return(w) ==
  /\ exit_status = "running"
  /\ pc[w] = "traversing"
  /\ mutex' = NoOwner
  /\ pc' = [pc EXCEPT ![w] = "returned"]
  /\ UNCHANGED <<symbols, visited, exit_status, mergeVars, queryVars, visitVars, annotVars, renderVars, readerVars>>

Next == \E w \in Workers : parseAST_lock(w) \/ parseAST_visit(w) \/ parseAST_return(w)

Spec == Init /\ [][Next]_vars

\* Scheduling: a worker blocked in the constructor of std::unique_lock gets
\* the mutex once it stays free, and the traversal of a tree, which is
\* finite, comes to its end, where parseAST returns.
Fairness ==
  \A w \in Workers : WF_vars(parseAST_lock(w)) /\ WF_vars(parseAST_return(w))

SpecFair == Spec /\ Fairness

(***************************************************************************)
(* Sequential use: the caller ingests one tree after the other and runs    *)
(* the read-only queries on the database in between, in any order.         *)
(***************************************************************************)
QueryIngestTypes == {JobTypes[1], JobTypes[2], JobTypes[3]}

QueryTypes == {JobTypes[1], JobTypes[3], JobTypes[4]}

\* The declarations of the trees the caller ingests: foo is declared in two
\* headers, and the map of its Declarations has the one of a.h first.
QueryDeclPool ==
  {DeclNode("function", "foo", OtherHeaderLine1, "DeclarationOnly", annotations) :
     annotations \in {<<>>,
                      <<<<"introduced_in", "=", "9">>>>,
                      <<<<"introduced_in", "=", "2", "1">>>>,
                      <<<<"introduced_in", "=", "9">>,
                        <<"introduced_in_32", "=", "2", "1">>>>}}
  \cup
  {DeclNode("function", "foo", HeaderLine5, "Definition", annotations) :
     annotations \in {<<<<"introduced_in", "=", "9">>>>,
                      <<<<"introduced_in", "=", "2", "1">>>>}}
  \cup
  {DeclNode("function", "foo", HeaderLine5, "DeclarationOnly",
            <<<<"introduced_in_arm", "=", "9">>>>),
   DeclNode("var", "bar", HeaderLine1, "DeclarationOnly",
            <<<<"introduced_in", "=", "9">>>>)}

\* The configuration entries of the database.
Entries(db) ==
  UNION {UNION {{<<n, l, t>> : t \in DOMAIN db[n].declarations[l].availability} :
                  l \in DOMAIN db[n].declarations} : n \in DOMAIN db}

\* HeaderDatabase::parseAST called by the one caller there is, from the lock
\* of line 283 to the return of line 287: the lock is free before the call,
\* the tree is traversed under it, and it is released when the call returns.
\* A tree with a defect ends the process inside the traversal, through
\* abort() or errx(): the call never returns and the lock stays held.  The
\* answer of the last query was given on the database before the call, and
\* a query that is reading the maps while the call writes them is in a data
\* race with it.
parseAST(type, tree) ==
  /\ exit_status = "running"
  /\ mutex = NoOwner
  /\ Cardinality(Entries(symbols)) < MaxEntries
  /\ \E result \in {TraverseDecl(symbols, type, tree)} :
       /\ symbols' = result.symbols
       /\ exit_status' = IF result.status = "continue" THEN "running" ELSE result.status
       /\ mutex' = IF result.status = "continue" THEN NoOwner ELSE Caller
       /\ pc' = IF result.status = "continue" THEN pc
                ELSE [pc EXCEPT ![Caller] = "traversing"]
  /\ query' = NoQuery
  /\ readers' = [r \in Readers |-> AfterIngestion(readers[r])]
  /\ UNCHANGED <<visited, mergeVars, visitVars, annotVars, renderVars>>

\* What the caller's DeclarationAvailability holds when it is handed to a
\* reduction: a fresh record, or the result of an earlier reduction.
OutputsBefore ==
  {NoAvailability,
   [NoAvailability EXCEPT !.global_availability = AvailabilityValues(FALSE, 14, 0, 0)]}

\* declaration.calculateAvailability(&output)
CallDeclarationCalculateAvailability(name, location, output) ==
  /\ exit_status = "running"
  /\ name \in DOMAIN symbols
  /\ location \in DOMAIN symbols[name].declarations
  /\ LET r == Declaration_calculateAvailability(symbols[name].declarations[location])
     IN  query' = [op |-> "Declaration::calculateAvailability", name |-> name,
                   location |-> location, ret |-> r.ret, output_before |-> output,
                   output |-> IF r.ret THEN r.avail ELSE output]
  /\ UNCHANGED <<dbVars, mergeVars, visitVars, annotVars, renderVars, readerVars>>

\* symbol.calculateAvailability(&output)
CallSymbolCalculateAvailability(name, output) ==
  /\ exit_status = "running"
  /\ name \in DOMAIN symbols
  /\ LET r == Symbol_calculateAvailability(symbols[name])
     IN  query' = [op |-> "Symbol::calculateAvailability", name |-> name,
                   ret |-> r.ret, output_before |-> output,
                   output |-> IF r.ret THEN r.avail ELSE output]
  /\ UNCHANGED <<dbVars, mergeVars, visitVars, annotVars, renderVars, readerVars>>

\* symbol.hasDeclaration(type)
CallHasDeclaration(name, type) ==
  /\ exit_status = "running"
  /\ name \in DOMAIN symbols
  /\ query' = [op |-> "Symbol::hasDeclaration", name |-> name, type |-> type,
               ret |-> hasDeclaration(symbols[name], type)]
  /\ UNCHANGED <<dbVars, mergeVars, visitVars, annotVars, renderVars, readerVars>>

NextQuery ==
  \/ \E type \in QueryIngestTypes, decl \in QueryDeclPool : parseAST(type, <<decl>>)
  \/ \E name \in {"foo", "bar"},
        location \in {HeaderLine1, HeaderLine5, OtherHeaderLine1},
        output \in OutputsBefore :
       CallDeclarationCalculateAvailability(name, location, output)
  \/ \E name \in {"foo", "bar"}, output \in OutputsBefore :
       CallSymbolCalculateAvailability(name, output)
  \/ \E name \in {"foo", "bar"}, type \in QueryTypes : CallHasDeclaration(name, type)

SpecQuery == Init /\ [][NextQuery]_vars

(***************************************************************************)
(* Concurrent use of the queries: reader threads call the reductions and   *)
(* hasDeclaration on the database the caller has ingested, each running    *)
(* the loops of lines 238-280 one map entry at a time, with no lock.       *)
(***************************************************************************)
ReaderTypes == {JobTypes[1], JobTypes[2]}

\* The declarations of the trees ingested for the readers: foo is declared
\* in two headers with availabilities that conflict between the two sites
\* and, under its second configuration, on one site.
ReaderDeclPool ==
  {DeclNode("function", "foo", OtherHeaderLine1, "DeclarationOnly",
            <<<<"introduced_in", "=", "9">>>>),
   DeclNode("function", "foo", OtherHeaderLine1, "DeclarationOnly",
            <<<<"introduced_in", "=", "2", "1">>>>),
   DeclNode("function", "foo", HeaderLine5, "DeclarationOnly",
            <<<<"introduced_in", "=", "2", "1">>>>),
   DeclNode("var", "bar", HeaderLine1, "DeclarationOnly",
            <<<<"introduced_in", "=", "9">>>>)}

\* The record of the caller that holds the result of an earlier reduction.
FilledOutput ==
  [NoAvailability EXCEPT !.global_availability = AvailabilityValues(FALSE, 14, 0, 0)]

\* The calls a reader thread makes.
ReaderQueries ==
  {[op |-> "Symbol::calculateAvailability", name |-> "foo", output_before |-> output] :
     output \in {NoAvailability, FilledOutput}}
  \cup
  {[op |-> "Symbol::calculateAvailability", name |-> "bar",
    output_before |-> FilledOutput],
   [op |-> "Declaration::calculateAvailability", name |-> "foo",
    location |-> OtherHeaderLine1, output_before |-> FilledOutput],
   [op |-> "Symbol::hasDeclaration", name |-> "foo", type |-> JobTypes[2]]}

\* The reader thread at the top of the function it calls: the local records
\* are default-constructed and the iterators are at the first entries.
\* loc_i and type_i are the places of the iterators over Symbol::declarations
\* and Declaration::availability, avail is the function's local record and
\* decl_avail the local record of the Declaration::calculateAvailability
\* call made from line 258.
EnterQuery(q) ==
  [pc |-> "running", query |-> q, loc_i |-> 1, type_i |-> 1,
   avail |-> NoAvailability, decl_avail |-> NoAvailability,
   output |-> IF q.op = "Symbol::hasDeclaration" THEN NoAvailability ELSE q.output_before,
   ret |-> FALSE, overlapped |-> FALSE]

\* The call returns.
Return(reader, ret) == [reader EXCEPT !.pc = "returned", !.ret = ret]

\* Lines 238-247, one turn of the loop: merge the record the iterator is
\* at, return false when the merge fails; after the last record write
\* *output and return true.
StepDeclaration(reader, declaration) ==
  LET order == TypesInOrder(DOMAIN declaration.availability)
  IN  IF reader.type_i > Len(order)
        THEN Return([reader EXCEPT !.output = reader.avail], TRUE)
        ELSE LET m == merge(reader.avail, declaration.availability[order[reader.type_i]])
             IN  IF ~m.ret THEN Return([reader EXCEPT !.avail = m.this], FALSE)
                 ELSE [reader EXCEPT !.avail = m.this, !.type_i = @ + 1]

\* Lines 249-269, one turn of the outer loop or of the loop of the call of
\* line 258: a definition is passed over; the records of another
\* Declaration are merged into decl_avail one by one, then decl_avail into
\* avail; a failed merge returns false; after the last Declaration *output
\* is written and true returned.
StepSymbol(reader, symbol) ==
  LET locations == LocationsInOrder(DOMAIN symbol.declarations)
  IN  IF reader.loc_i > Len(locations)
        THEN Return([reader EXCEPT !.output = reader.avail], TRUE)
        ELSE
          LET declaration == symbol.declarations[locations[reader.loc_i]]
              order == TypesInOrder(DOMAIN declaration.availability)
          IN  IF declaration.is_definition
                THEN [reader EXCEPT !.loc_i = @ + 1]
              ELSE IF reader.type_i <= Len(order)
                THEN LET m == merge(reader.decl_avail,
                                    declaration.availability[order[reader.type_i]])
                     IN  IF ~m.ret THEN Return([reader EXCEPT !.decl_avail = m.this], FALSE)
                         ELSE [reader EXCEPT !.decl_avail = m.this, !.type_i = @ + 1]
              ELSE LET m == merge(reader.avail, reader.decl_avail)
                   IN  IF ~m.ret THEN Return([reader EXCEPT !.avail = m.this], FALSE)
                       ELSE [reader EXCEPT !.avail = m.this, !.loc_i = @ + 1,
                                           !.type_i = 1, !.decl_avail = NoAvailability]

\* Lines 271-280, one turn of the inner loop: return true at the entry of
\* the configuration asked for, false after the last Declaration.
StepHasDeclaration(reader, symbol) ==
  LET locations == LocationsInOrder(DOMAIN symbol.declarations)
  IN  IF reader.loc_i > Len(locations) THEN Return(reader, FALSE)
      ELSE LET declaration == symbol.declarations[locations[reader.loc_i]]
               order == TypesInOrder(DOMAIN declaration.availability)
           IN  IF reader.type_i > Len(order)
                 THEN [reader EXCEPT !.loc_i = @ + 1, !.type_i = 1]
               ELSE IF order[reader.type_i] = reader.query.type
                 THEN Return(reader, TRUE)
               ELSE [reader EXCEPT !.type_i = @ + 1]

\* The next step of the call the reader thread is in.
StepQuery(reader, db) ==
  CASE reader.query.op = "Declaration::calculateAvailability" ->
         StepDeclaration(reader, db[reader.query.name].declarations[reader.query.location])
    [] reader.query.op = "Symbol::calculateAvailability" ->
         StepSymbol(reader, db[reader.query.name])
    [] reader.query.op = "Symbol::hasDeclaration" ->
         StepHasDeclaration(reader, db[reader.query.name])

\* The reader threads after thread r has taken a step that leaves it as
\* reader: a thread that is in a call has now run together with another.
ReadersAfter(r, reader) ==
  [x \in Readers |->
     IF x = r THEN reader
     ELSE IF readers[x].pc = "running" THEN [readers[x] EXCEPT !.overlapped = TRUE]
     ELSE readers[x]]

\* The thread calls a reduction or hasDeclaration on a Symbol or a
\* Declaration of the database.
Reader_call(r, q) ==
  /\ exit_status = "running"
  /\ readers[r].pc \in {"idle", "returned"}
  /\ q.name \in DOMAIN symbols
  /\ q.op = "Declaration::calculateAvailability"
       => q.location \in DOMAIN symbols[q.name].declarations
  /\ readers' = ReadersAfter(r, EnterQuery(q))
  /\ UNCHANGED <<dbVars, mergeVars, queryVars, visitVars, annotVars, renderVars>>

\* Mutant of Reader_step: Declaration::calculateAvailability folds in the
\* first record of the Declaration instead of a local record.
Reader_stepInPlace(r) ==
  /\ exit_status = "running"
  /\ readers[r].pc = "running"
  /\ LET reader == StepQuery(readers[r], symbols)
         q == readers[r].query
     IN  /\ readers' = ReadersAfter(r, reader)
         /\ symbols' =
              IF q.op = "Declaration::calculateAvailability"
                THEN LET declaration == symbols[q.name].declarations[q.location]
                         first == TypesInOrder(DOMAIN declaration.availability)[1]
                     IN  [symbols EXCEPT
                            ![q.name].declarations[q.location].availability[first] =
                              reader.avail]
                ELSE symbols
  /\ UNCHANGED <<mutex, pc, visited, exit_status, mergeVars, queryVars, visitVars, annotVars, renderVars>>

\* Mutant of Reader_step: a reduction writes *output after every merge.
Reader_stepWritesPartial(r) ==
  /\ exit_status = "running"
  /\ readers[r].pc = "running"
  /\ LET reader == StepQuery(readers[r], symbols)
     IN  readers' = ReadersAfter(r, IF reader.query.op = "Symbol::hasDeclaration"
                                     THEN reader
                                     ELSE [reader EXCEPT !.output = reader.avail])
  /\ UNCHANGED <<dbVars, mergeVars, queryVars, visitVars, annotVars, renderVars>>

\* The thread runs the next turn of the loop it is in.
Reader_step(r) ==
  /\ exit_status = "running"
  /\ readers[r].pc = "running"
  /\ readers' = ReadersAfter(r, StepQuery(readers[r], symbols))
  /\ UNCHANGED <<dbVars, mergeVars, queryVars, visitVars, annotVars, renderVars>>

\* The call of the thread has raced with an ingestion call: the behaviour
\* is undefined.  It returns whatever it returns, or the process ends.
Reader_raced(r) ==
  /\ exit_status = "running"
  /\ readers[r].pc = "raced"
  /\ readers' = [readers EXCEPT ![r] = IdleReader]
  /\ exit_status' \in {"running", "crash"}
  /\ UNCHANGED <<symbols, mutex, pc, visited, mergeVars, queryVars, visitVars, annotVars, renderVars>>

NextReaders ==
  \/ \E type \in ReaderTypes, decl \in ReaderDeclPool : parseAST(type, <<decl>>)
  \/ \E r \in Readers, q \in ReaderQueries : Reader_call(r, q)
  \/ \E r \in Readers : Reader_step(r)
  \/ \E r \in Readers : Reader_raced(r)

SpecReaders == Init /\ [][NextReaders]_vars

NextMerge == \E that \in MergeInputs : Merge(that)

SpecMerge == Init /\ [][NextMerge]_vars

(***************************************************************************)
(* Sequential ingestion, Decl by Decl: one caller calls                    *)
(* HeaderDatabase::parseAST again and again, each call with a              *)
(* configuration of its own; its traversal hands the Decls of the tree to  *)
(* VisitDecl one after the other.                                          *)
(***************************************************************************)
VisitTypes == {JobTypes[1], JobTypes[2], JobTypes[3]}

\* The Decls the trees of the sequential caller are made of.
VisitDeclPool ==
  {DeclNode("function", "foo", HeaderLine1, "DeclarationOnly",
            <<<<"introduced_in", "=", "9">>>>),
   DeclNode("function", "foo", HeaderLine1, "DeclarationOnly",
            <<<<"introduced_in", "=", "2", "1">>>>),
   DeclNode("function", "foo", HeaderLine1, "Definition", <<>>),
   [DeclNode("function", "foo", HeaderLine1, "DeclarationOnly",
             <<<<"introduced_in", "=", "9">>>>) EXCEPT !.external_linkage = FALSE],
   DeclNode("function", "foo", HeaderLine5, "DeclarationOnly",
            <<<<"introduced_in_future">>>>),
   DeclNode("function", "qux", HeaderLine5, "DeclarationOnly",
            <<<<"introduced_in", "=", "9">>, <<"deprecated_in", "=", "x">>>>),
   DeclNode("function", "foo", HeaderLine1, "DeclarationOnly",
            <<<<"obsoleted_in", "=">>>>),
   [DeclNode("function", "foo", HeaderLine1, "DeclarationOnly",
             <<<<"introduced_in", "=", "x">>>>) EXCEPT !.unavailable = TRUE],
   DeclNode("other", "foo", HeaderLine1, "DeclarationOnly", <<>>),
   [DeclNode("other", NoIdentifier, HeaderLine5, "DeclarationOnly", <<>>) EXCEPT
      !.named = FALSE],
   DeclNode("var", "bar", HeaderLine1, "DeclarationOnly",
            <<<<"introduced_in", "=", "9">>>>),
   DeclNode("var", "baz", HeaderLine5, "TentativeDefinition",
            <<<<"introduced_in", "=", "x">>>>),
   [DeclNode("var", "baz", HeaderLine5, "TentativeDefinition", <<>>) EXCEPT
      !.unavailable = TRUE],
   [DeclNode("var", "i", HeaderLine5, "TentativeDefinition", <<>>) EXCEPT
      !.parent_function = TRUE, !.file_var = FALSE],
   [DeclNode("var", "j", HeaderLine5, "Definition", <<>>) EXCEPT !.file_var = FALSE],
   DeclNode("function", "foo", HeaderLine5, "DeclarationOnly",
            <<<<"introduced_in_mips64", "=", "x">>,
              <<"introduced_in">>,
              <<"introduced_in", "=", "9", "=", "x">>>>),
   DeclNode("var", "bar", HeaderLine5, "DeclarationOnly",
            <<<<"introduced_in_mips64", "=", "x">>,
              <<"introduced_in", "=", "9">>>>)}

\* Lines 283-285: the caller takes the lock and constructs the Visitor of
\* the call with the call's configuration.
Caller_parseAST(type) ==
  /\ exit_status = "running"
  /\ pc[Caller] # "traversing"
  /\ mutex = NoOwner
  /\ mutex' = Caller
  /\ pc' = [pc EXCEPT ![Caller] = "traversing"]
  /\ visit' = [op |-> "parseAST", type |-> type, tree |-> <<>>, visits |-> visit.visits]
  /\ UNCHANGED <<symbols, visited, exit_status, mergeVars, queryVars, annotVars, renderVars, readerVars>>

\* Line 286: the traversal reaches its next Decl and calls VisitDecl on it.
Caller_VisitDecl(decl) ==
  /\ exit_status = "running"
  /\ pc[Caller] = "traversing"
  /\ mutex = Caller
  /\ visit.visits < MaxDecls
  /\ LET r == VisitDecl(symbols, visit.type, decl)
     IN  /\ symbols' = r.symbols
         /\ exit_status' = IF r.status = "continue" THEN "running" ELSE r.status
  /\ visit' = [op |-> "VisitDecl", type |-> visit.type, decl |-> decl,
               tree |-> Append(visit.tree, decl), before |-> symbols,
               visits |-> visit.visits + 1]
  /\ UNCHANGED <<mutex, pc, visited, mergeVars, queryVars, annotVars, renderVars, readerVars>>

\* Line 287: the traversal is over, parseAST returns and the lock is released.
Caller_return ==
  /\ exit_status = "running"
  /\ pc[Caller] = "traversing"
  /\ mutex = Caller
  /\ mutex' = NoOwner
  /\ pc' = [pc EXCEPT ![Caller] = "returned"]
  /\ visit' = [op |-> "return", visits |-> visit.visits]
  /\ UNCHANGED <<symbols, visited, exit_status, mergeVars, queryVars, annotVars, renderVars, readerVars>>

NextVisit ==
  \/ \E type \in VisitTypes : Caller_parseAST(type)
  \/ \E decl \in VisitDeclPool : Caller_VisitDecl(decl)
  \/ Caller_return

SpecVisit == Init /\ [][NextVisit]_vars

(***************************************************************************)
(* The same caller on trees of Decls that differ in how they are named:    *)
(* by identifier, by mangled name, or by neither.                          *)
(***************************************************************************)
NamedDeclPool ==
  {DeclNode("function", "foo", HeaderLine1, "DeclarationOnly",
            <<<<"introduced_in", "=", "9">>>>),
   [DeclNode("function", "foo", HeaderLine1, "DeclarationOnly",
             <<<<"introduced_in", "=", "9">>>>) EXCEPT
      !.should_mangle = TRUE, !.mangled = "_Z3foov"],
   [DeclNode("function", NoIdentifier, HeaderLine5, "DeclarationOnly",
             <<<<"introduced_in", "=", "2", "1">>>>) EXCEPT
      !.should_mangle = TRUE, !.mangled = "_ZplRK1AS1_"],
   DeclNode("function", NoIdentifier, HeaderLine1, "DeclarationOnly",
            <<<<"introduced_in", "=", "9">>>>),
   DeclNode("function", NoIdentifier, HeaderLine5, "DeclarationOnly",
            <<<<"introduced_in", "=", "2", "1">>>>),
   DeclNode("function", NoIdentifier, HeaderLine5, "Definition",
            <<<<"introduced_in", "=", "2", "1">>>>),
   DeclNode("var", NoIdentifier, HeaderLine1, "DeclarationOnly", <<>>),
   [DeclNode("var", "i", HeaderLine5, "Definition", <<>>) EXCEPT !.file_var = FALSE]}

NextNames ==
  \/ \E type \in VisitTypes : Caller_parseAST(type)
  \/ \E decl \in NamedDeclPool : Caller_VisitDecl(decl)
  \/ Caller_return

SpecNames == Init /\ [][NextNames]_vars

(***************************************************************************)
(* The annotation loop of VisitDecl, annotation by annotation: the record  *)
(* declared at line 138 and the attributes of one Decl applied to it in    *)
(* order, under the configuration of the Visitor.                          *)
(***************************************************************************)
AnnotationPool ==
  {<<"introduced_in", "=", "9">>,
   <<"deprecated_in", "=", "1", "4">>,
   <<"obsoleted_in", "=", "2", "1">>,
   <<"introduced_in_arm", "=", "9">>,
   <<"introduced_in_x86", "=", "1", "4">>,
   <<"introduced_in_32", "=", "2", "1">>,
   <<"introduced_in_64", "=", "2", "1">>,
   <<"introduced_in_64", "=", "9">>,
   <<"introduced_in_future">>,
   <<"introduced_in_mips64", "=", "9">>,
   <<"introduced_in">>,
   <<"introduced_in", "=", "9", "=", "9">>,
   <<"introduced_in_32", "=", "x">>,
   <<"obsoleted_in", "=">>}

\* Line 138: DeclarationAvailability availability, default-constructed, in
\* the VisitDecl call of a Visitor of the given configuration.
StartAnnotations(type) ==
  /\ annot = NoAnnotations
  /\ annot' = [op |-> "start", type |-> type, availability |-> NoAvailability,
               failed |-> FALSE, count |-> 0]
  /\ UNCHANGED <<dbVars, mergeVars, queryVars, visitVars, renderVars, readerVars>>

\* Lines 141-186: one iteration of the loop over the AnnotateAttrs; failed
\* is the errx of line 178, after which nothing runs.
ApplyNext(annotation) ==
  /\ annot # NoAnnotations
  /\ ~annot.failed
  /\ annot.count < MaxAnnotations
  /\ LET r == ApplyAnnotation(annot.availability, annot.type, annotation)
     IN  annot' = [op |-> "applied", type |-> annot.type, annotation |-> annotation,
                   before |-> annot.availability, availability |-> r.availability,
                   failed |-> r.failed, count |-> annot.count + 1]
  /\ UNCHANGED <<dbVars, mergeVars, queryVars, visitVars, renderVars, readerVars>>

NextAnnotate ==
  \/ \E type \in VisitTypes : StartAnnotations(type)
  \/ \E annotation \in AnnotationPool : ApplyNext(annotation)

SpecAnnotate == Init /\ [][NextAnnotate]_vars

(***************************************************************************)
(* Text rendering: the to_string overloads.  A std::string is a string;    *)
(* operator<< of an int writes its decimal numeral.                        *)
(***************************************************************************)
\* to_string(Arch): the name of the architecture.
to_string_Arch(arch) == arch

\* std::string to_string(const CompilationType&)
to_string_CompilationType(type) ==
  to_string_Arch(type.arch) \o "-" \o ToString(type.api_level)

\* Mutant of to_string_AvailabilityValues: the text is returned with the
\* separator that follows its last field.
to_string_AvailabilityValuesKeepSeparator(av) ==
  (IF av.future THEN "future, " ELSE "")
    \o (IF av.introduced # 0
          THEN "introduced = " \o ToString(av.introduced) \o ", " ELSE "")
    \o (IF av.deprecated # 0
          THEN "deprecated = " \o ToString(av.deprecated) \o ", " ELSE "")
    \o (IF av.obsoleted # 0
          THEN "obsoleted = " \o ToString(av.obsoleted) \o ", " ELSE "")

\* std::string to_string(const AvailabilityValues&)
to_string_AvailabilityValues(av) ==
  LET ss == (IF av.future THEN "future, " ELSE "")
              \o (IF av.introduced # 0
                    THEN "introduced = " \o ToString(av.introduced) \o ", " ELSE "")
              \o (IF av.deprecated # 0
                    THEN "deprecated = " \o ToString(av.deprecated) \o ", " ELSE "")
              \o (IF av.obsoleted # 0
                    THEN "obsoleted = " \o ToString(av.obsoleted) \o ", " ELSE "")
  IN  IF ss # "" THEN SubSeq(ss, 1, Len(ss) - 2) ELSE ss

\* Lines 339-343: the loop over arch_availability, from the i-th architecture on.
RECURSIVE to_string_ArchAvailability(_, _)
to_string_ArchAvailability(decl_av, i) ==
  IF i > Len(supported_archs) THEN ""
  ELSE LET arch == supported_archs[i]
           av == decl_av.arch_availability[arch]
       IN  (IF ~empty(av)
              THEN to_string_Arch(arch) \o ": "
                     \o to_string_AvailabilityValues(av) \o ", "
              ELSE "")
             \o to_string_ArchAvailability(decl_av, i + 1)

\* Mutant of to_string_DeclarationAvailability: the global rendering and its
\* separator are written also when the global slot is empty.
to_string_DeclarationAvailabilityUnguarded(decl_av) ==
  LET ss == to_string_AvailabilityValues(decl_av.global_availability) \o ", "
              \o to_string_ArchAvailability(decl_av, 1)
  IN  IF Len(ss) = 0 THEN "no availability" ELSE SubSeq(ss, 1, Len(ss) - 2)

\* std::string to_string(const DeclarationAvailability&)
to_string_DeclarationAvailability(decl_av) ==
  LET ss == (IF ~empty(decl_av.global_availability)
               THEN to_string_AvailabilityValues(decl_av.global_availability) \o ", "
               ELSE "")
              \o to_string_ArchAvailability(decl_av, 1)
  IN  IF Len(ss) = 0 THEN "no availability" ELSE SubSeq(ss, 1, Len(ss) - 2)

\* operator<< of an unsigned value: the bytes of its decimal digits.
RECURSIVE DecimalBytes(_)
DecimalBytes(n) ==
  IF n < 10 THEN <<48 + n>> ELSE DecimalBytes(n \div 10) \o <<48 + (n % 10)>>

\* std::string to_string(const Location&): the bytes of the file name, a
\* colon (58), the start line, a colon and the start column.
to_string_Location(loc) ==
  loc.filename \o <<58>> \o DecimalBytes(loc.start.line)
               \o <<58>> \o DecimalBytes(loc.start.column)

(***************************************************************************)
(* The rendering specification: to_string is called on one argument after  *)
(* the other.                                                              *)
(***************************************************************************)
RenderValues ==
  {AvailabilityValues(future, introduced, deprecated, obsoleted) :
     future \in BOOLEAN, introduced \in {0, 9},
     deprecated \in {0, 14}, obsoleted \in {0, 21}}

RenderAvailabilities ==
  {[global_availability |-> g,
    arch_availability |-> [a \in Archs |-> IF a = "arm" THEN x
                                           ELSE IF a = "x86" THEN y
                                           ELSE NoValues]] :
     g \in RenderValues,
     x \in {NoValues, AvailabilityValues(TRUE, 0, 0, 0),
            AvailabilityValues(FALSE, 21, 0, 0)},
     y \in {NoValues, AvailabilityValues(TRUE, 9, 0, 0)}}

RenderTypes == {CompilationType(arch, api_level) : arch \in Archs, api_level \in {9, 21}}

RenderLocations == {HeaderLine1, HeaderLine5, OtherHeaderLine1}

Render_AvailabilityValues(av) ==
  /\ rendered' = [op |-> "to_string(AvailabilityValues)", input |-> av,
                  text |-> to_string_AvailabilityValues(av)]
  /\ UNCHANGED <<dbVars, mergeVars, queryVars, visitVars, annotVars, readerVars>>

Render_DeclarationAvailability(decl_av) ==
  /\ rendered' = [op |-> "to_string(DeclarationAvailability)", input |-> decl_av,
                  text |-> to_string_DeclarationAvailability(decl_av)]
  /\ UNCHANGED <<dbVars, mergeVars, queryVars, visitVars, annotVars, readerVars>>

Render_CompilationType(type) ==
  /\ rendered' = [op |-> "to_string(CompilationType)", input |-> type,
                  text |-> to_string_CompilationType(type)]
  /\ UNCHANGED <<dbVars, mergeVars, queryVars, visitVars, annotVars, readerVars>>

Render_Location(loc) ==
  /\ rendered' = [op |-> "to_string(Location)", input |-> loc,
                  text |-> to_string_Location(loc)]
  /\ UNCHANGED <<dbVars, mergeVars, queryVars, visitVars, annotVars, readerVars>>

NextRender ==
  \/ \E av \in RenderValues : Render_AvailabilityValues(av)
  \/ \E decl_av \in RenderAvailabilities : Render_DeclarationAvailability(decl_av)
  \/ \E type \in RenderTypes : Render_CompilationType(type)
  \/ \E loc \in RenderLocations : Render_Location(loc)

SpecRender == Init /\ [][NextRender]_vars

(***************************************************************************)
(* Vocabulary of the claims: the seven slots of a record.                  *)
(***************************************************************************)
Slots == {"global"} \cup Archs

SlotOf(availability, slot) ==
  IF slot = "global" THEN availability.global_availability
  ELSE availability.arch_availability[slot]

\* Both values are set and they are not the same value.
SlotConflict(a, b, slot) ==
  /\ SlotOf(a, slot) # NoValues
  /\ SlotOf(b, slot) # NoValues
  /\ SlotOf(a, slot) # SlotOf(b, slot)

NonConflicting(records) ==
  \A a \in records, b \in records : \A slot \in Slots : ~SlotConflict(a, b, slot)

\* Per slot the value some record sets, NoValues when none does.
SlotwiseJoin(records) ==
  LET pick(slot) ==
        IF \E r \in records : SlotOf(r, slot) # NoValues
          THEN SlotOf(CHOOSE r \in records : SlotOf(r, slot) # NoValues, slot)
          ELSE NoValues
  IN  [global_availability |-> pick("global"),
       arch_availability |-> [a \in Archs |-> pick(a)]]

\* C1: merge reports failure if and only if some slot, the global one or an
\* architecture's, is non-empty in other and in self and holds different
\* values in the two; no slot's verdict depends on another slot.
C1_MergeFailsIffSlotConflict ==
  merge_calls > 0 =>
    (merge_ret = FALSE <=> \E slot \in Slots : SlotConflict(self_before, other, slot))

\* A failed merge whose global slots agree: the conflict is in an
\* architecture slot alone, and a later architecture slot agrees again.
C1_Witness ==
  /\ merge_calls > 0
  /\ merge_ret = FALSE
  /\ other.global_availability = self_before.global_availability
  /\ other.global_availability # NoValues
  /\ SlotConflict(self_before, other, "arm")
  /\ other.arch_availability["x86_64"] = self_before.arch_availability["x86_64"]
  /\ other.arch_availability["x86_64"] # NoValues

\* C2: merging x into an empty record succeeds and yields x; merging x into
\* x succeeds and leaves x; merging an empty record into x succeeds and
\* leaves x.
C2_MergeIdentities ==
  merge_calls > 0 =>
    /\ self_before = NoAvailability => (merge_ret = TRUE /\ self = other)
    /\ other = self_before => (merge_ret = TRUE /\ self = self_before)
    /\ other = NoAvailability => (merge_ret = TRUE /\ self = self_before)

\* x merged into x, for an x that sets the global and both architecture slots.
C2_Witness ==
  /\ merge_calls > 1
  /\ other = self_before
  /\ \A slot \in {"global", "arm", "x86_64"} : SlotOf(other, slot) # NoValues
  /\ merge_ret = TRUE
  /\ self = other

\* C3: records that are pairwise non-conflicting fold, in whatever order
\* they are merged into an empty record, without a failure into one and the
\* same record: per slot the value that some record sets.
C3_MergeOrderIndependent ==
  NonConflicting(merged) => (merge_ret = TRUE /\ self = SlotwiseJoin(merged))

\* Three different non-conflicting records merged, the last one setting a
\* slot the earlier ones left empty and repeating one they set.
C3_Witness ==
  /\ Cardinality(merged) = 3
  /\ NonConflicting(merged)
  /\ \E slot \in Slots : SlotOf(self_before, slot) = NoValues /\ SlotOf(other, slot) # NoValues
  /\ \E slot \in Slots : SlotOf(self_before, slot) # NoValues /\ SlotOf(other, slot) # NoValues
  /\ \E slot \in Slots : SlotOf(self_before, slot) # NoValues /\ SlotOf(other, slot) = NoValues
  /\ self = SlotwiseJoin(merged)

(***************************************************************************)
(* Claims about the concurrent ingestion.                                  *)
(***************************************************************************)
Returned == {w \in Workers : pc[w] = "returned"}

\* Every order in which the workers of a set can have taken the lock.
Orders(ws) ==
  {o \in [1..Cardinality(ws) -> ws] :
     \A i \in DOMAIN o, j \in DOMAIN o : i # j => o[i] # o[j]}

RECURSIVE IngestInOrder(_, _)
\* The trees of the workers ingested one after the other, in the given order.
IngestInOrder(db, order) ==
  IF order = <<>> THEN [status |-> "continue", symbols |-> db]
  ELSE LET call == TraverseDecl(db, JobType(Head(order)), visited[Head(order)])
       IN  IF call.status # "continue" THEN call
           ELSE IngestInOrder(call.symbols, Tail(order))

\* C4: when the calls that have run had pairwise distinct configurations
\* and none hit a fatal error, the database is the one that ingesting their
\* trees one after the other gives, and that is the same database for every
\* order of the calls.
C4_IngestionOrderIrrelevant ==
  (/\ exit_status = "running"
   /\ mutex = NoOwner
   /\ \A v \in Returned, w \in Returned : v # w => JobType(v) # JobType(w))
  => \A order \in Orders(Returned) :
       IngestInOrder(EmptyMap, order) = [status |-> "continue", symbols |-> symbols]

\* Two calls have returned, three declarations were recorded, and one
\* Declaration holds the entries of both configurations.
C4_Witness ==
  /\ exit_status = "running"
  /\ Cardinality(Returned) >= 2
  /\ mutex = NoOwner
  /\ VisitsOf(NumWorkers) = 3
  /\ \A w \in Workers : \A i \in 1..Len(visited[w]) : Classify(visited[w][i]) = "record"
  /\ \E n \in DOMAIN symbols : \E l \in DOMAIN symbols[n].declarations :
       Cardinality(DOMAIN symbols[n].declarations[l].availability) = 2

MutualExclusion ==
  /\ Cardinality({w \in Workers : pc[w] = "traversing"}) <= 1
  /\ \A w \in Workers : pc[w] = "traversing" <=> mutex = w

\* A step that calls VisitDecl, and so reads or writes the symbol map, is
\* taken by the worker that holds the lock before and after the step.
AccessUnderLock ==
  (visited' # visited \/ symbols' # symbols) =>
    /\ mutex \in Workers
    /\ mutex' = mutex
    /\ pc[mutex] = "traversing"
    /\ \A w \in Workers \ {mutex} : visited'[w] = visited[w]

\* C5: at most one worker is inside a traversal, it is the holder of the
\* lock, and every access to the symbol map is made by the lock's holder:
\* a traversal is one critical section from its lock to its return.
C5_IngestionMutuallyExclusive == [](MutualExclusion) /\ [][AccessUnderLock]_vars

\* One call has returned after recording a declaration, a second worker is
\* inside its traversal and has visited a declaration too.
C5_Witness ==
  \E v \in Workers, w \in Workers :
    /\ pc[v] = "returned" /\ Len(visited[v]) > 0
    /\ pc[w] = "traversing" /\ Len(visited[w]) > 0
    /\ mutex = w

\* The visits that reached the database code.
RecordedVisits ==
  UNION {{<<w, i>> : i \in {j \in 1..Len(visited[w]) :
                              Classify(visited[w][j]) = "record"}} : w \in Workers}

VisitedDecl(site) == visited[site[1]][site[2]]

\* C10: observations of one name at one location, made under different
\* configurations with equal is_extern and is_definition, share one Symbol
\* and one Declaration, whose configuration map holds exactly the
\* configurations it was observed under; an observation of the name at
\* another location is a further Declaration of the same Symbol.  There is
\* one Symbol per observed name and one Declaration per observed location.
C10_IdentityByNameAndLocation ==
  exit_status = "running" =>
    /\ DOMAIN symbols = {getDeclName(VisitedDecl(v)) : v \in RecordedVisits}
    /\ \A n \in DOMAIN symbols :
         LET sites == {v \in RecordedVisits : getDeclName(VisitedDecl(v)) = n}
         IN  /\ DOMAIN symbols[n].declarations = {VisitedDecl(v).location : v \in sites}
             /\ \A l \in DOMAIN symbols[n].declarations :
                  /\ DOMAIN symbols[n].declarations[l].availability =
                       {JobType(v[1]) : v \in {u \in sites : VisitedDecl(u).location = l}}
                  /\ \A v \in {u \in sites : VisitedDecl(u).location = l} :
                       /\ symbols[n].declarations[l].is_definition =
                            (VisitedDecl(v).definition = "Definition")
                       /\ symbols[n].declarations[l].is_extern =
                            VisitedDecl(v).external_linkage

\* foo was observed at line 1 under two configurations and at line 5 under
\* one: one Symbol, two Declarations, the first with both configurations.
C10_Witness ==
  /\ exit_status = "running"
  /\ DOMAIN symbols = {"foo"}
  /\ DOMAIN symbols["foo"].declarations = {HeaderLine1, HeaderLine5}
  /\ DOMAIN symbols["foo"].declarations[HeaderLine1].availability =
       {JobType(1), JobType(2)}
  /\ Cardinality(DOMAIN symbols["foo"].declarations[HeaderLine5].availability) = 1
  /\ Cardinality(RecordedVisits) = 3

(***************************************************************************)
(* Claims about the reductions and hasDeclaration.                         *)
(***************************************************************************)
\* The records a Declaration holds, one per configuration it has.
RecordsOf(declaration) ==
  {declaration.availability[t] : t \in DOMAIN declaration.availability}

QueriedSymbol == symbols[query.name]

QueriedDeclaration == symbols[query.name].declarations[query.location]

\* C6: Declaration::calculateAvailability succeeds if and only if, in every
\* slot, the non-empty values of the declaration's configurations are equal;
\* on success the output holds per slot that value, or is empty where no
\* configuration set the slot; folding the configurations in any other
\* order fails or succeeds alike.
C6_DeclarationReduction ==
  query.op = "Declaration::calculateAvailability" =>
    LET entries == QueriedDeclaration.availability
    IN  /\ query.ret = NonConflicting(RecordsOf(QueriedDeclaration))
        /\ query.ret => query.output = SlotwiseJoin(RecordsOf(QueriedDeclaration))
        /\ \A order \in Orders(DOMAIN entries) :
             FoldAvailability(NoAvailability,
                              [i \in DOMAIN order |-> entries[order[i]]]).ret = query.ret

\* A declaration with three configurations fails: the first two records in
\* map order agree with each other, the last two as well, and only the first
\* and the third conflict.
C6_Witness ==
  /\ query.op = "Declaration::calculateAvailability"
  /\ query.ret = FALSE
  /\ LET entries == QueriedDeclaration.availability
         order == TypesInOrder(DOMAIN entries)
     IN  /\ Cardinality(DOMAIN entries) = 3
         /\ NonConflicting({entries[order[1]], entries[order[2]]})
         /\ NonConflicting({entries[order[2]], entries[order[3]]})
         /\ ~NonConflicting({entries[order[1]], entries[order[3]]})

\* The symbol without its Declarations that are definitions.
WithoutDefinitions(symbol) ==
  [symbol EXCEPT !.declarations =
     [l \in {k \in DOMAIN symbol.declarations : ~symbol.declarations[k].is_definition}
        |-> symbol.declarations[l]]]

\* C7: Symbol::calculateAvailability returns, and writes, what it does for
\* the symbol with every definition removed, so a definition contributes
\* nothing and causes no failure, whatever its records are; a symbol that
\* has definitions only yields success and an empty record.
C7_DefinitionsIgnored ==
  query.op = "Symbol::calculateAvailability" =>
    LET stripped == Symbol_calculateAvailability(WithoutDefinitions(QueriedSymbol))
    IN  /\ query.ret = stripped.ret
        /\ query.ret => query.output = stripped.avail
        /\ (\A l \in DOMAIN QueriedSymbol.declarations :
              QueriedSymbol.declarations[l].is_definition)
           => (query.ret = TRUE /\ query.output = NoAvailability)

\* The reduction of a symbol succeeds with a non-empty record although its
\* definition holds two records that conflict with each other.
C7_Witness ==
  /\ query.op = "Symbol::calculateAvailability"
  /\ query.ret = TRUE
  /\ query.output # NoAvailability
  /\ \E l \in DOMAIN QueriedSymbol.declarations :
       /\ QueriedSymbol.declarations[l].is_definition
       /\ ~NonConflicting(RecordsOf(QueriedSymbol.declarations[l]))
  /\ \E k \in DOMAIN QueriedSymbol.declarations :
       ~QueriedSymbol.declarations[k].is_definition

\* The records of the symbol's Declarations that are not definitions.
ProtoRecords(symbol) ==
  UNION {RecordsOf(symbol.declarations[l]) :
           l \in {k \in DOMAIN symbol.declarations : ~symbol.declarations[k].is_definition}}

\* The same records as one sequence: declaration by declaration in the
\* order of the locations, configuration by configuration within each.
ProtoRecordSeq(symbol, locations) ==
  LET RECURSIVE Flat(_)
      Flat(ls) ==
        IF ls = <<>> THEN <<>>
        ELSE LET declaration == symbol.declarations[Head(ls)]
                 order == TypesInOrder(DOMAIN declaration.availability)
             IN  (IF declaration.is_definition THEN <<>>
                  ELSE [i \in DOMAIN order |-> declaration.availability[order[i]]])
                 \o Flat(Tail(ls))
  IN  Flat(locations)

\* C8: Symbol::calculateAvailability gives what one flat fold over all
\* (declaration, configuration) records of the non-definition declarations
\* gives: it fails iff two of these records, of one site or of two, set a
\* slot to different values, and otherwise writes the slotwise common value.
C8_SymbolReductionIsFlatFold ==
  query.op = "Symbol::calculateAvailability" =>
    LET flat == FoldAvailability(NoAvailability,
                  ProtoRecordSeq(QueriedSymbol,
                                 LocationsInOrder(DOMAIN QueriedSymbol.declarations)))
    IN  /\ query.ret = NonConflicting(ProtoRecords(QueriedSymbol))
        /\ query.ret => query.output = SlotwiseJoin(ProtoRecords(QueriedSymbol))
        /\ query.ret = flat.ret
        /\ query.ret => query.output = flat.avail

\* The reduction of a symbol fails although each of its two prototypes
\* reduces without a conflict: the conflict is between the two sites.
C8_Witness ==
  /\ query.op = "Symbol::calculateAvailability"
  /\ query.ret = FALSE
  /\ Cardinality(DOMAIN QueriedSymbol.declarations) = 2
  /\ \A l \in DOMAIN QueriedSymbol.declarations :
       /\ ~QueriedSymbol.declarations[l].is_definition
       /\ NonConflicting(RecordsOf(QueriedSymbol.declarations[l]))
  /\ \E l \in DOMAIN QueriedSymbol.declarations :
       Cardinality(DOMAIN QueriedSymbol.declarations[l].availability) = 2

\* C9: hasDeclaration(c) is true iff some Declaration of the symbol, a
\* definition or not, has an entry whose key has c's architecture and c's
\* API level; sharing one of the two with an entry is not enough.
C9_HasDeclarationExact ==
  query.op = "Symbol::hasDeclaration" =>
    (query.ret <=>
       \E l \in DOMAIN QueriedSymbol.declarations :
         \E t \in DOMAIN QueriedSymbol.declarations[l].availability :
           t.arch = query.type.arch /\ t.api_level = query.type.api_level)

\* hasDeclaration is false for a configuration whose architecture one entry
\* of the symbol has and whose API level another entry has.
C9_Witness ==
  /\ query.op = "Symbol::hasDeclaration"
  /\ query.ret = FALSE
  /\ \E l \in DOMAIN QueriedSymbol.declarations :
       \E t \in DOMAIN QueriedSymbol.declarations[l].availability :
         t.arch = query.type.arch /\ t.api_level # query.type.api_level
  /\ \E l \in DOMAIN QueriedSymbol.declarations :
       \E t \in DOMAIN QueriedSymbol.declarations[l].availability :
         t.arch # query.type.arch /\ t.api_level = query.type.api_level

(***************************************************************************)
(* Claims about single VisitDecl calls of the sequential caller.           *)
(***************************************************************************)
\* The Decl visited last got past the skips and the tentative-definition
\* check, and each of its annotations parsed: it reached line 188.
ReachedDatabase ==
  /\ visit.op = "VisitDecl"
  /\ Classify(visit.decl) = "record"
  /\ ~ParseAnnotations(NoAvailability, visit.type, visit.decl.annotations).failed

VisitedName == getDeclName(visit.decl)

\* The database held a Declaration of the visited name at the visited
\* location before the visit.
DeclarationExisted ==
  /\ VisitedName \in DOMAIN visit.before
  /\ visit.decl.location \in DOMAIN visit.before[VisitedName].declarations

ExistingDeclaration == visit.before[VisitedName].declarations[visit.decl.location]

\* The existing Declaration and the visited Decl differ in is_extern or in
\* is_definition.
FlagsVary ==
  \/ ExistingDeclaration.is_extern # visit.decl.external_linkage
  \/ ExistingDeclaration.is_definition # (visit.decl.definition = "Definition")

\* C11: a declaration ingested at the name and location of an existing
\* Declaration with another is_extern or another is_definition ends the
\* process with the error exit of "varying declaration", and the database,
\* the existing Declaration included, is left as it was; this is so
\* whichever of the two observations came first.
C11_VaryingDeclarationIsFatal ==
  (ReachedDatabase /\ DeclarationExisted /\ FlagsVary) =>
    /\ exit_status = "errx"
    /\ symbols = visit.before
    /\ symbols[VisitedName].declarations[visit.decl.location] = ExistingDeclaration

\* The definition was recorded first, under another configuration; the
\* prototype at the same place, with the same linkage, came second.
C11_Witness ==
  /\ ReachedDatabase /\ DeclarationExisted
  /\ ExistingDeclaration.is_definition
  /\ visit.decl.definition = "DeclarationOnly"
  /\ ExistingDeclaration.is_extern = visit.decl.external_linkage
  /\ visit.type \notin DOMAIN ExistingDeclaration.availability
  /\ exit_status = "errx"

\* The record VisitDecl built from the annotations of the visited Decl.
ObservedAvailability ==
  ParseAnnotations(NoAvailability, visit.type, visit.decl.annotations).availability

\* The visited Decl is a second observation under a configuration its
\* Declaration already has an entry for.
Revisit ==
  /\ ReachedDatabase /\ DeclarationExisted /\ ~FlagsVary
  /\ visit.type \in DOMAIN ExistingDeclaration.availability

RecordedEntry ==
  symbols[VisitedName].declarations[visit.decl.location].availability[visit.type]

\* The entry found was written by an earlier parseAST call: the tree of this
\* call held no other Decl of that name and location before the visited one.
IngestedAgain ==
  /\ Revisit
  /\ \A i \in 1..(Len(visit.tree) - 1) :
       \/ getDeclName(visit.tree[i]) # VisitedName
       \/ visit.tree[i].location # visit.decl.location

\* C12 as stated: when a configuration is ingested again for a Declaration
\* that has an entry for it, the entry is replaced by the newly observed
\* record.
C12_NewestRecordWins == IngestedAgain => RecordedEntry = ObservedAvailability

\* C12, amended: when a configuration is ingested again for a Declaration
\* that has an entry for it, the entry recorded first is kept and the newly
\* observed record is dropped; the two are not merged, the visit changes
\* nothing in the database and ends normally.
C12_FirstRecordKept ==
  Revisit =>
    /\ exit_status = "running"
    /\ RecordedEntry = ExistingDeclaration.availability[visit.type]
    /\ symbols = visit.before

\* A second observation whose record differs from the first one, in a slot
\* both set and so that merging the two would have changed the first.
C12_Witness ==
  /\ IngestedAgain
  /\ ObservedAvailability # ExistingDeclaration.availability[visit.type]
  /\ merge(ExistingDeclaration.availability[visit.type], ObservedAvailability).this
       # ExistingDeclaration.availability[visit.type]
  /\ RecordedEntry = ExistingDeclaration.availability[visit.type]

(***************************************************************************)
(* Claims about whole parseAST calls.                                      *)
(***************************************************************************)
\* What the three queries return on every symbol and declaration of a
\* database: the success flag and, on success, the record written.
QueryResults(db) ==
  [n \in DOMAIN db |->
     LET s == Symbol_calculateAvailability(db[n])
     IN  [calculateAvailability |-> IF s.ret THEN <<TRUE, s.avail>> ELSE <<FALSE>>,
          declarations |->
            [l \in DOMAIN db[n].declarations |->
               LET d == Declaration_calculateAvailability(db[n].declarations[l])
               IN  IF d.ret THEN <<TRUE, d.avail>> ELSE <<FALSE>>],
          hasDeclaration |->
            [i \in DOMAIN JobTypes |-> hasDeclaration(db[n], JobTypes[i])]]]

\* C13: ingesting the tree of a call that has returned once more, under the
\* same configuration, ends normally and leaves the database as it is, and
\* with it what Symbol::calculateAvailability,
\* Declaration::calculateAvailability and hasDeclaration return.
C13_ReingestionChangesNothing ==
  (exit_status = "running" /\ mutex = NoOwner) =>
    \A w \in Returned :
      LET again == TraverseDecl(symbols, JobType(w), visited[w])
      IN  /\ again.status = "continue"
          /\ again.symbols = symbols
          /\ QueryResults(again.symbols) = QueryResults(symbols)

\* A returned call whose tree held two Decls of one name and location with
\* different annotations, while another call has added an entry of its own
\* configuration to the same Declaration.
C13_Witness ==
  /\ exit_status = "running" /\ mutex = NoOwner
  /\ \E w \in Returned, v \in Returned :
       /\ w # v
       /\ Len(visited[w]) = 2
       /\ Classify(visited[w][1]) = "record" /\ Classify(visited[w][2]) = "record"
       /\ getDeclName(visited[w][1]) = getDeclName(visited[w][2])
       /\ visited[w][1].location = visited[w][2].location
       /\ visited[w][1].annotations # visited[w][2].annotations
       /\ Len(visited[v]) = 1
       /\ getDeclName(visited[v][1]) = getDeclName(visited[w][1])
       /\ visited[v][1].location = visited[w][1].location
       /\ Cardinality(DOMAIN symbols[getDeclName(visited[w][1])]
                               .declarations[visited[w][1].location].availability) = 2

(***************************************************************************)
(* Claims about single annotations.                                        *)
(***************************************************************************)
Digits == {"0", "1", "2", "3", "4", "5", "6", "7", "8", "9"}

RECURSIVE DecimalValue(_)
\* The number a non-empty sequence of digits spells.
DecimalValue(digits) ==
  IF digits = <<>> THEN 0
  ELSE 10 * DecimalValue(SubSeq(digits, 1, Len(digits) - 1)) +
       (CHOOSE n \in 0..9 : ToString(n) = digits[Len(digits)])

\* The annotation applied last is prefix=N for a decimal numeral N.
AppliedNumeral(prefix) ==
  /\ annot.op = "applied"
  /\ Len(annot.annotation) >= 3
  /\ annot.annotation[1] = prefix
  /\ annot.annotation[2] = "="
  /\ \A i \in 3..Len(annot.annotation) : annot.annotation[i] \in Digits

AppliedOperand == DecimalValue(SubSeq(annot.annotation, 3, Len(annot.annotation)))

\* Every slot outside targets is as before the annotation; a slot inside has
\* introduced = value and the other three fields as before.
IntroducedSetOnExactly(targets, value) ==
  \A slot \in Slots :
    SlotOf(annot.availability, slot) =
      IF slot \in targets
        THEN [SlotOf(annot.before, slot) EXCEPT !.introduced = value]
        ELSE SlotOf(annot.before, slot)

\* C14: introduced_in_32=N sets introduced to N in the arm, mips and x86
\* slots, introduced_in_64=N in the arm64, mips64 and x86_64 slots; the
\* global slot, the three other architecture slots and the deprecated,
\* obsoleted and future fields of all slots stay as they were, under every
\* configuration.
C14_WordSizeFanOut ==
  /\ AppliedNumeral("introduced_in_32") =>
       (~annot.failed /\ IntroducedSetOnExactly({"arm", "mips", "x86"}, AppliedOperand))
  /\ AppliedNumeral("introduced_in_64") =>
       (~annot.failed /\ IntroducedSetOnExactly({"arm64", "mips64", "x86_64"}, AppliedOperand))

\* introduced_in_32=21 applied under a 64-bit configuration to a record
\* whose arm64 slot holds future and introduced = 9.
C14_Witness ==
  /\ AppliedNumeral("introduced_in_32")
  /\ AppliedOperand = 21
  /\ annot.type.arch = "arm64"
  /\ annot.before.arch_availability["arm64"] = AvailabilityValues(TRUE, 9, 0, 0)
  /\ annot.availability.arch_availability["arm64"] = AvailabilityValues(TRUE, 9, 0, 0)
  /\ annot.availability.arch_availability["mips"].introduced = 21

AppliedFuture == annot.op = "applied" /\ annot.annotation = <<"introduced_in_future">>

\* C15: introduced_in_future sets future in the slot of the architecture of
\* the Visitor's configuration and nowhere else: the global slot and the
\* five other architecture slots keep future = FALSE, and introduced,
\* deprecated and obsoleted stay as they were in all seven slots.
C15_FutureOnCurrentArchOnly ==
  AppliedFuture =>
    /\ ~annot.failed
    /\ \A slot \in Slots :
         SlotOf(annot.availability, slot) =
           IF slot = annot.type.arch
             THEN [SlotOf(annot.before, slot) EXCEPT !.future = TRUE]
             ELSE SlotOf(annot.before, slot)
    /\ \A slot \in Slots \ {annot.type.arch} : ~SlotOf(annot.availability, slot).future

\* introduced_in_future applied under (x86, 9) to a record whose global,
\* x86 and arm slots hold an introduced value.
C15_Witness ==
  /\ AppliedFuture
  /\ annot.type = CompilationType("x86", 9)
  /\ ~annot.before.arch_availability["x86"].future
  /\ annot.before.global_availability.introduced = 9
  /\ annot.availability.arch_availability["x86"] = AvailabilityValues(TRUE, 21, 0, 0)
  /\ annot.availability.arch_availability["arm"] = AvailabilityValues(FALSE, 21, 0, 0)

RecognisedPrefixes ==
  {"introduced_in", "deprecated_in", "obsoleted_in", "introduced_in_arm",
   "introduced_in_mips", "introduced_in_x86", "introduced_in_32", "introduced_in_64"}

\* The text is a base-10 integer: digits, at least one, after an optional
\* minus sign.
Base10Integer(text) ==
  LET digits == IF text # <<>> /\ Head(text) = "-" THEN Tail(text) ELSE text
  IN  digits # <<>> /\ \A i \in 1..Len(digits) : digits[i] \in Digits

\* prefix=operand with one "=", a recognised prefix and an operand that is
\* not an integer.
MalformedOperand(annotation) ==
  /\ Len(annotation) >= 2
  /\ annotation[1] \in RecognisedPrefixes
  /\ annotation[2] = "="
  /\ \A i \in 3..Len(annotation) : annotation[i] # "="
  /\ ~Base10Integer(SubSeq(annotation, 3, Len(annotation)))

\* The Decl is a variable at file scope that the parser reports as a
\* tentative definition.
TentativeFileVar(decl) ==
  /\ decl.kind = "var"
  /\ decl.named
  /\ ~decl.parent_function
  /\ decl.file_var
  /\ decl.definition = "TentativeDefinition"

\* The Decl is neither a function nor a variable at file scope.
NotFunctionNorFileVar(decl) ==
  decl.kind # "function" /\ ~(decl.kind = "var" /\ decl.file_var)

\* VisitDecl returns at one of its skips (lines 74-121) for this Decl.
SkippedDecl(decl) ==
  \/ decl.parent_function
  \/ ~decl.named
  \/ NotFunctionNorFileVar(decl)
  \/ (decl.unavailable /\ ~TentativeFileVar(decl))

CarriesMalformedOperand(decl) ==
  \E i \in DOMAIN decl.annotations : MalformedOperand(decl.annotations[i])

\* C16 as stated: an annotation with a recognised prefix and a malformed
\* operand ends the process with a fatal error, and the Decl that carries it
\* is not written to the database.
C16_MalformedOperandAlwaysFatal ==
  (visit.op = "VisitDecl" /\ CarriesMalformedOperand(visit.decl))
  => (exit_status # "running" /\ symbols = visit.before)

\* C16, amended: an annotation with a recognised prefix and a malformed
\* operand on a Decl that VisitDecl does not skip ends the process with a
\* fatal error (the error exit of the annotation, or the abort of a
\* tentative definition, which comes first), and the database is as before
\* the visit: no Symbol, Declaration or configuration entry was created or
\* changed for the Decl.
C16_MalformedOperandIsFatal ==
  (/\ visit.op = "VisitDecl"
   /\ CarriesMalformedOperand(visit.decl)
   /\ ~SkippedDecl(visit.decl))
  => /\ exit_status = IF TentativeFileVar(visit.decl) THEN "abort" ELSE "errx"
     /\ symbols = visit.before

\* The malformed annotation follows a well-formed one on a Decl of a name
\* the database does not hold yet: the record half built is not written.
C16_Witness ==
  /\ visit.op = "VisitDecl"
  /\ Classify(visit.decl) = "record"
  /\ Len(visit.decl.annotations) = 2
  /\ ~MalformedOperand(visit.decl.annotations[1])
  /\ MalformedOperand(visit.decl.annotations[2])
  /\ visit.before # EmptyMap
  /\ VisitedName \notin DOMAIN symbols
  /\ exit_status = "errx"

\* The process has ended: no Decl is visited and nothing is written any more.
NothingAfterExit ==
  exit_status # "running" => (symbols' = symbols /\ visit' = visit /\ exit_status' = exit_status)

\* C17: visiting a file-scope variable that is a tentative definition aborts
\* the process at once; the database is as before the visit, so no Symbol,
\* Declaration or entry was created for the variable, and no Decl that
\* follows it in the tree is visited.
C17_TentativeDefinitionAborts ==
  /\ []((visit.op = "VisitDecl" /\ TentativeFileVar(visit.decl)) =>
          /\ exit_status = "abort"
          /\ symbols = visit.before
          /\ \A next \in VisitDeclPool :
               TraverseDecl(visit.before, visit.type, <<visit.decl, next>>) =
                 [status |-> "abort", symbols |-> visit.before])
  /\ [][NothingAfterExit]_vars

\* The tentative definition is the second Decl of its tree; the first one
\* was recorded, the variable's name is not in the database.
C17_Witness ==
  /\ visit.op = "VisitDecl"
  /\ TentativeFileVar(visit.decl)
  /\ Len(visit.tree) = 2
  /\ visit.before # EmptyMap
  /\ VisitedName \notin DOMAIN symbols
  /\ exit_status = "abort"

\* The visit wrote nothing and the traversal goes on: it is still running,
\* and a tree with any Decl after the visited one has that Decl visited next.
VisitWasSkip ==
  /\ symbols = visit.before
  /\ exit_status = "running"
  /\ pc[Caller] = "traversing"
  /\ \A next \in VisitDeclPool :
       TraverseDecl(visit.before, visit.type, <<visit.decl, next>>) =
         VisitDecl(visit.before, visit.type, next)

\* C18 as stated: a Decl that is nested in a function body, is unnamed, is
\* neither a function nor a file-scope variable, or carries the unavailable
\* marker leaves the database unchanged and does not stop the traversal.
C18_SkippedDeclChangesNothing ==
  (/\ visit.op = "VisitDecl"
   /\ \/ visit.decl.parent_function
      \/ ~visit.decl.named
      \/ NotFunctionNorFileVar(visit.decl)
      \/ visit.decl.unavailable)
  => VisitWasSkip

\* C18, amended: a Decl that is nested in a function body, is unnamed, is
\* neither a function nor a file-scope variable, or carries the unavailable
\* marker without being a file-scope variable's tentative definition, leaves
\* the database unchanged and does not stop the traversal.
C18_SkippedUnlessTentative ==
  (/\ visit.op = "VisitDecl"
   /\ SkippedDecl(visit.decl))
  => VisitWasSkip

\* A function marked unavailable is visited second in its tree, at the name
\* and location of a Declaration the database holds, with an annotation
\* whose operand is malformed: nothing changes and nothing ends.
C18_Witness ==
  /\ visit.op = "VisitDecl"
  /\ visit.decl.kind = "function"
  /\ visit.decl.unavailable
  /\ Len(visit.tree) = 2
  /\ DeclarationExisted
  /\ \E i \in DOMAIN visit.decl.annotations : MalformedOperand(visit.decl.annotations[i])
  /\ VisitWasSkip

(***************************************************************************)
(* End-to-end scenarios.                                                   *)
(***************************************************************************)
\* void foo(void), a prototype annotated introduced_in=9.
FooIntroducedIn9 ==
  DeclNode("function", "foo", HeaderLine1, "DeclarationOnly",
           <<<<"introduced_in", "=", "9">>>>)

\* The calls made so far are one for each of the given configurations, each
\* on a tree that holds the given Decl alone, and all have returned.
IngestedUnder(decl, types) ==
  /\ {JobType(w) : w \in Returned} = types
  /\ \A w \in Returned : visited[w] = <<decl>>
  /\ \A w \in Workers \ Returned : visited[w] = <<>> /\ pc[w] = "idle"

\* C19: after foo, a prototype annotated introduced_in=9, was ingested at
\* one location under (arm, 9) and under (arm64, 21), whichever call came
\* first, Symbol foo's calculateAvailability succeeds and writes global
\* introduced = 9 with all six architecture slots empty, and hasDeclaration
\* is true for (arm, 9) and (arm64, 21) and false for (x86, 9).
C19_EndToEndAgreement ==
  IngestedUnder(FooIntroducedIn9, {CompilationType("arm", 9), CompilationType("arm64", 21)})
  => /\ exit_status = "running"
     /\ DOMAIN symbols = {"foo"}
     /\ \A order \in Orders(Returned) : IngestInOrder(EmptyMap, order).symbols = symbols
     /\ LET r == Symbol_calculateAvailability(symbols["foo"])
        IN  /\ r.ret
            /\ r.avail.global_availability = AvailabilityValues(FALSE, 9, 0, 0)
            /\ \A a \in Archs : r.avail.arch_availability[a] = NoValues
     /\ hasDeclaration(symbols["foo"], CompilationType("arm", 9))
     /\ hasDeclaration(symbols["foo"], CompilationType("arm64", 21))
     /\ ~hasDeclaration(symbols["foo"], CompilationType("x86", 9))

\* Both calls of the scenario have returned.
C19_Witness ==
  /\ IngestedUnder(FooIntroducedIn9,
                   {CompilationType("arm", 9), CompilationType("arm64", 21)})
  /\ mutex = NoOwner
  /\ Cardinality(DOMAIN symbols["foo"].declarations[HeaderLine1].availability) = 2

\* The record observed at this visit sets a slot to another value than the
\* record the Declaration holds for some other configuration does, and the
\* Declaration has no entry for the visit's configuration yet.
ConflictsWithExisting ==
  /\ ReachedDatabase /\ DeclarationExisted /\ ~FlagsVary
  /\ visit.type \notin DOMAIN ExistingDeclaration.availability
  /\ \E t \in DOMAIN ExistingDeclaration.availability :
       ~NonConflicting({ExistingDeclaration.availability[t], ObservedAvailability})

\* C20: a Decl whose availability conflicts with what another configuration
\* recorded for the same Declaration is ingested like any other: the visit
\* ends normally, the process keeps running and the record is stored as
\* observed next to the conflicting one.  The conflict shows only in the
\* value Declaration::calculateAvailability and, for a non-definition,
\* Symbol::calculateAvailability return on the database: false.
C20_ConflictSurfacesInReductionOnly ==
  ConflictsWithExisting =>
    /\ exit_status = "running"
    /\ pc[Caller] = "traversing"
    /\ DOMAIN symbols[VisitedName].declarations[visit.decl.location].availability =
         DOMAIN ExistingDeclaration.availability \cup {visit.type}
    /\ RecordedEntry = ObservedAvailability
    /\ \A t \in DOMAIN ExistingDeclaration.availability :
         symbols[VisitedName].declarations[visit.decl.location].availability[t] =
           ExistingDeclaration.availability[t]
    /\ ~Declaration_calculateAvailability(
          symbols[VisitedName].declarations[visit.decl.location]).ret
    /\ ~ExistingDeclaration.is_definition =>
         ~Symbol_calculateAvailability(symbols[VisitedName]).ret

\* foo was recorded with introduced = 9 under one configuration and is
\* visited with introduced_in=21 under another.
C20_Witness ==
  /\ ConflictsWithExisting
  /\ ObservedAvailability.global_availability = AvailabilityValues(FALSE, 21, 0, 0)
  /\ \E t \in DOMAIN ExistingDeclaration.availability :
       ExistingDeclaration.availability[t].global_availability =
         AvailabilityValues(FALSE, 9, 0, 0)
  /\ exit_status = "running"
  /\ ~Symbol_calculateAvailability(symbols[VisitedName]).ret

(***************************************************************************)
(* Claims about the database over time.                                    *)
(***************************************************************************)
\* Everything the first database holds, the second one holds too: every
\* Symbol, every Declaration with its name, location, is_extern and
\* is_definition, and every configuration entry.
GrowsFrom(old, new) ==
  /\ DOMAIN old \subseteq DOMAIN new
  /\ \A n \in DOMAIN old :
       /\ DOMAIN old[n].declarations \subseteq DOMAIN new[n].declarations
       /\ \A l \in DOMAIN old[n].declarations :
            LET was == old[n].declarations[l]
                is  == new[n].declarations[l]
            IN  /\ DOMAIN was.availability \subseteq DOMAIN is.availability
                /\ is.name = was.name
                /\ is.location = was.location
                /\ is.is_extern = was.is_extern
                /\ is.is_definition = was.is_definition

\* C21: no step, of an ingestion call or of a query, removes a Symbol, a
\* Declaration of a Symbol or a configuration entry of a Declaration, or
\* changes the name, location, is_extern or is_definition of a Declaration.
C21_DatabaseOnlyGrows == [][GrowsFrom(symbols, symbols')]_vars

\* Three entries were ingested one call after the other, two of them on one
\* Declaration, and a reduction has run on the database.
C21_Witness ==
  /\ Cardinality(Entries(symbols)) = 3
  /\ \E n \in DOMAIN symbols : \E l \in DOMAIN symbols[n].declarations :
       Cardinality(DOMAIN symbols[n].declarations[l].availability) = 2
  /\ query.op = "Symbol::calculateAvailability"

\* What the call q returns, and what it leaves in the caller's record, when
\* it runs alone on the database db from its first step to its return.
Sequential(q, db) ==
  CASE q.op = "Declaration::calculateAvailability" ->
         LET r == Declaration_calculateAvailability(db[q.name].declarations[q.location])
         IN  [ret |-> r.ret, output |-> IF r.ret THEN r.avail ELSE q.output_before]
    [] q.op = "Symbol::calculateAvailability" ->
         LET r == Symbol_calculateAvailability(db[q.name])
         IN  [ret |-> r.ret, output |-> IF r.ret THEN r.avail ELSE q.output_before]
    [] q.op = "Symbol::hasDeclaration" ->
         [ret |-> hasDeclaration(db[q.name], q.type), output |-> NoAvailability]

\* What the call of the reader thread returned and left in its record.
Answer(reader) == [ret |-> reader.ret, output |-> reader.output]

\* The step is a step of a query: a reader thread enters a call, runs a turn
\* of its loop or returns.
ReaderStep ==
  \E r \in Readers :
    readers'[r] # readers[r] /\ readers'[r].pc \in {"running", "returned"}

\* The reader threads whose call has returned with no ingestion since.
ReturnedReaders(rs) == {r \in Readers : rs[r].pc = "returned"}

\* C22: a step of a reduction or of hasDeclaration, a failing one included,
\* leaves the database, the lock and the process as they were, so the
\* reductions of the other Symbols give what they gave; a call that has
\* returned, after whatever steps of the other reader threads ran between
\* its own, returned and wrote what the same call gives when it runs alone
\* on the database; and two calls of the same query returned the same.
C22_QueriesAreReadOnly ==
  [][/\ ReaderStep => UNCHANGED dbVars
     /\ \A r \in ReturnedReaders(readers') :
          Answer(readers'[r]) = Sequential(readers'[r].query, symbols')
     /\ \A r \in ReturnedReaders(readers'), t \in ReturnedReaders(readers') :
          readers'[r].query = readers'[t].query
            => Answer(readers'[r]) = Answer(readers'[t])]_vars

\* Two reader threads have returned from calls whose steps ran between each
\* other's: the reduction of foo failed, the reduction of bar succeeded
\* with a non-empty record.
C22_Witness ==
  \E r \in Readers, t \in Readers :
    /\ readers[r].pc = "returned" /\ readers[t].pc = "returned"
    /\ readers[r].overlapped /\ readers[t].overlapped
    /\ readers[r].query.op = "Symbol::calculateAvailability"
    /\ readers[r].query.name = "foo"
    /\ ~readers[r].ret
    /\ readers[t].query.op = "Symbol::calculateAvailability"
    /\ readers[t].query.name = "bar"
    /\ readers[t].ret
    /\ readers[t].output # NoAvailability

(***************************************************************************)
(* Claims about the text rendering.                                        *)
(***************************************************************************)
\* The texts of the set fields of a record, by field.
FieldText(av, field) ==
  CASE field = "introduced" ->
         IF av.introduced # 0
           THEN <<"introduced = " \o ToString(av.introduced)>> ELSE <<>>
    [] field = "deprecated" ->
         IF av.deprecated # 0
           THEN <<"deprecated = " \o ToString(av.deprecated)>> ELSE <<>>
    [] field = "obsoleted" ->
         IF av.obsoleted # 0
           THEN <<"obsoleted = " \o ToString(av.obsoleted)>> ELSE <<>>
    [] field = "future" -> IF av.future THEN <<"future">> ELSE <<>>

\* The texts of the set fields in the given order of fields.
RECURSIVE FieldTexts(_, _)
FieldTexts(av, order) ==
  IF order = <<>> THEN <<>>
  ELSE FieldText(av, Head(order)) \o FieldTexts(av, Tail(order))

\* The texts joined by ", ", with no separator after the last.
RECURSIVE CommaJoined(_)
CommaJoined(texts) ==
  IF texts = <<>> THEN ""
  ELSE IF Len(texts) = 1 THEN texts[1]
  ELSE texts[1] \o ", " \o CommaJoined(Tail(texts))

RenderedValues == rendered.op = "to_string(AvailabilityValues)"

\* C23 as stated: the rendering of an AvailabilityValues record lists the set
\* fields in the order introduced, deprecated, obsoleted, future, joined by
\* ", ", and is empty exactly when the record is empty.
C23_FutureListedLast ==
  RenderedValues =>
    /\ rendered.text =
         CommaJoined(FieldTexts(rendered.input,
                                <<"introduced", "deprecated", "obsoleted", "future">>))
    /\ rendered.text = "" <=> empty(rendered.input)

\* C23 amended: the rendering of an AvailabilityValues record lists the set
\* fields in the order future, introduced, deprecated, obsoleted, as "future",
\* "introduced = N", "deprecated = N" and "obsoleted = N", joined by ", "
\* with no trailing separator, omitting the fields that are 0 or false, and
\* is the empty string exactly when the record is empty.
C23_FutureListedFirst ==
  RenderedValues =>
    /\ rendered.text =
         CommaJoined(FieldTexts(rendered.input,
                                <<"future", "introduced", "deprecated", "obsoleted">>))
    /\ rendered.text = "" <=> empty(rendered.input)

\* A record with future, introduced and obsoleted set has been rendered.
C23_Witness ==
  /\ RenderedValues
  /\ rendered.input = AvailabilityValues(TRUE, 9, 0, 21)
  /\ rendered.text = "future, introduced = 9, obsoleted = 21"

(***************************************************************************)
(* Claims about what the reductions report.                                *)
(***************************************************************************)
\* The annotation strings a Decl carries, as a set.
AnnotationSet(decl) == {decl.annotations[i] : i \in DOMAIN decl.annotations}

\* The recorded observations of the Declaration of name n at location l.
ObservationsOf(n, l) ==
  {v \in RecordedVisits : /\ getDeclName(VisitedDecl(v)) = n
                          /\ VisitedDecl(v).location = l}

\* Every observation of the site carried the same set of annotation strings.
SameAnnotationsEverywhere(n, l) ==
  \A u, v \in ObservationsOf(n, l) :
    AnnotationSet(VisitedDecl(u)) = AnnotationSet(VisitedDecl(v))

\* C24: a declaration site observed with the same set of annotation strings
\* under every configuration it was ingested under reduces successfully:
\* Declaration::calculateAvailability returns true.
C24_NoFalsePositives ==
  exit_status = "running" =>
    \A n \in DOMAIN symbols : \A l \in DOMAIN symbols[n].declarations :
      SameAnnotationsEverywhere(n, l) =>
        Declaration_calculateAvailability(symbols[n].declarations[l]).ret

(***************************************************************************)
(* Claims about what merge writes.                                         *)
(***************************************************************************)
MergeCalled == merge_calls > 0

\* C25: whether merge returned true or false, every slot that is non-empty
\* in other holds other's value in self afterwards, a conflicting slot
\* included; so a failed merge leaves a record that depends on the order:
\* merging the two records the other way round leaves a different one.
C25_MergeAssignsEvenOnFailure ==
  MergeCalled =>
    /\ \A slot \in Slots :
         ~empty(SlotOf(other, slot)) => SlotOf(self, slot) = SlotOf(other, slot)
    /\ ~merge_ret => merge(other, self_before).this # self

\* A failed merge: the arm slot conflicted and now holds other's value, and
\* the global slot, set before and empty in other, kept its value.
C25_Witness ==
  /\ MergeCalled
  /\ ~merge_ret
  /\ SlotConflict(self_before, other, "arm")
  /\ SlotOf(self, "arm") = SlotOf(other, "arm")
  /\ empty(SlotOf(other, "global"))
  /\ ~empty(SlotOf(self, "global"))

\* C26: merge leaves every slot of self unchanged whose slot in other is
\* empty, and no slot of self that was non-empty is empty afterwards.  (The
\* argument is a reference to const: merge has no way to write to other.)
C26_MergeFrame ==
  MergeCalled =>
    \A slot \in Slots :
      /\ empty(SlotOf(other, slot)) => SlotOf(self, slot) = SlotOf(self_before, slot)
      /\ ~empty(SlotOf(self_before, slot)) => ~empty(SlotOf(self, slot))

\* A merge of a record that sets the global slot only into a record that
\* had the arm and x86_64 slots set: both are as they were.
C26_Witness ==
  /\ MergeCalled
  /\ ~empty(SlotOf(other, "global"))
  /\ \A slot \in {"arm", "x86_64"} :
       /\ empty(SlotOf(other, slot))
       /\ ~empty(SlotOf(self_before, slot))
       /\ SlotOf(self, slot) = SlotOf(self_before, slot)

\* The fields of an AvailabilityValues record.
ValueFields == {"future", "introduced", "deprecated", "obsoleted"}

\* The two values differ in at least one field.
DifferInSomeField(a, b) == \E f \in ValueFields : a[f] # b[f]

\* The two values combined field by field: what either has set.
FieldwiseUnion(a, b) ==
  AvailabilityValues(a.future \/ b.future,
                     IF b.introduced # 0 THEN b.introduced ELSE a.introduced,
                     IF b.deprecated # 0 THEN b.deprecated ELSE a.deprecated,
                     IF b.obsoleted # 0 THEN b.obsoleted ELSE a.obsoleted)

\* C27: two non-empty values of one slot that differ in any field, be it one
\* that only one of them sets or the future flag, make merge fail, and the
\* slot then holds other's value as a whole, not a combination of the
\* fields of the two.
C27_WholeSlotComparison ==
  MergeCalled =>
    \A slot \in Slots :
      LET mine   == SlotOf(self_before, slot)
          theirs == SlotOf(other, slot)
      IN  (~empty(mine) /\ ~empty(theirs) /\ DifferInSomeField(mine, theirs)) =>
            /\ merge_ret = FALSE
            /\ SlotOf(self, slot) = theirs
            /\ (FieldwiseUnion(mine, theirs) # theirs =>
                  SlotOf(self, slot) # FieldwiseUnion(mine, theirs))

\* {introduced 9, future} was merged into a global slot holding
\* {introduced 9}: the merge failed and the slot holds the new value.
C27_Witness ==
  /\ MergeCalled
  /\ SlotOf(self_before, "global") = AvailabilityValues(FALSE, 9, 0, 0)
  /\ SlotOf(other, "global") = AvailabilityValues(TRUE, 9, 0, 0)
  /\ merge_ret = FALSE
  /\ SlotOf(self, "global") = AvailabilityValues(TRUE, 9, 0, 0)

(***************************************************************************)
(* Claims about the caller's output record.                                *)
(***************************************************************************)
\* The reader threads that are in a reduction or have returned from one.
ReducingReaders ==
  {r \in Readers : /\ readers[r].pc \in {"running", "returned"}
                   /\ readers[r].query.op # "Symbol::hasDeclaration"}

\* The records the reduction q folds.
FoldedRecords(q) ==
  IF q.op = "Declaration::calculateAvailability"
    THEN RecordsOf(symbols[q.name].declarations[q.location])
    ELSE ProtoRecords(symbols[q.name])

\* C28: while a reduction runs, and when it has returned false, the
\* caller's output record is as it was handed in; when it has returned true
\* the record is the whole folded record, and nothing of what it held before
\* remains.
C28_OutputWrittenOnSuccessOnly ==
  \A r \in ReducingReaders :
    LET reader == readers[r]
    IN  /\ reader.pc = "running" => reader.output = reader.query.output_before
        /\ reader.pc = "returned" /\ ~reader.ret
             => reader.output = reader.query.output_before
        /\ reader.pc = "returned" /\ reader.ret
             => reader.output = SlotwiseJoin(FoldedRecords(reader.query))

\* A reduction of a Symbol returned false after it had folded a non-empty
\* record into its local one; the caller's record, which held the result of
\* an earlier reduction, is as it was.
C28_Witness ==
  \E r \in Readers :
    /\ readers[r].pc = "returned"
    /\ readers[r].query.op = "Symbol::calculateAvailability"
    /\ ~readers[r].ret
    /\ readers[r].loc_i > 1
    /\ readers[r].avail # NoAvailability
    /\ readers[r].query.output_before # NoAvailability
    /\ readers[r].avail # readers[r].query.output_before
    /\ readers[r].output = readers[r].query.output_before

(***************************************************************************)
(* Claims about the shape of the database and the order of the checks.     *)
(***************************************************************************)
\* C29: every Symbol stored under a name has that name; every Declaration
\* stored in it under a location has the Symbol's name and that location and
\* holds at least one configuration entry; so every Symbol has at least one
\* Declaration and hasDeclaration is true of it for some configuration.
C29_DatabaseWellFormed ==
  \A n \in DOMAIN symbols :
    /\ symbols[n].name = n
    /\ DOMAIN symbols[n].declarations # {}
    /\ \A l \in DOMAIN symbols[n].declarations :
         /\ symbols[n].declarations[l].name = n
         /\ symbols[n].declarations[l].location = l
         /\ DOMAIN symbols[n].declarations[l].availability # {}
    /\ \E type \in VisitTypes : hasDeclaration(symbols[n], type)

\* Three visits have left two Symbols, one of them with two Declarations.
C29_Witness ==
  /\ visit.op = "VisitDecl"
  /\ Cardinality(DOMAIN symbols) = 2
  /\ \E n \in DOMAIN symbols : Cardinality(DOMAIN symbols[n].declarations) = 2

\* C30: a file-scope variable that is a tentative definition aborts the
\* process also when it carries the unavailable marker or an annotation
\* that does not parse (the visit neither returns as a skip nor ends in the
\* annotation's error exit); a Decl nested in a function body is skipped
\* whatever else holds of it: the process runs on, the database unchanged.
C30_TentativeCheckComesFirst ==
  visit.op = "VisitDecl" =>
    /\ (/\ TentativeFileVar(visit.decl)
        /\ visit.decl.unavailable \/ CarriesMalformedOperand(visit.decl))
       => exit_status = "abort"
    /\ visit.decl.parent_function =>
         (exit_status = "running" /\ symbols = visit.before)

\* A tentative definition marked unavailable was visited, after a Decl that
\* was recorded: the process aborted.
C30_Witness ==
  /\ visit.op = "VisitDecl"
  /\ TentativeFileVar(visit.decl)
  /\ visit.decl.unavailable
  /\ visit.before # EmptyMap
  /\ exit_status = "abort"

(***************************************************************************)
(* Claims about annotations that are not availability annotations.         *)
(***************************************************************************)
\* The annotation is not introduced_in_future and either does not split on
\* "=" into exactly two fragments or has a prefix the table does not hold.
IgnoredAnnotation(annotation) ==
  /\ annotation # <<"introduced_in_future">>
  /\ LET fragments == Split(annotation, "=")
     IN  \/ Len(fragments) # 2
         \/ \A prefix \in RecognisedPrefixes : fragments[1] # <<prefix>>

\* The operand, the text after the first "=", is not a base-10 integer.
OperandNotInteger(annotation) ==
  /\ \E i \in 1..Len(annotation) : annotation[i] = "="
  /\ LET k == CHOOSE i \in 1..Len(annotation) :
                /\ annotation[i] = "="
                /\ \A j \in 1..(i - 1) : annotation[j] # "="
     IN  ~Base10Integer(SubSeq(annotation, k + 1, Len(annotation)))

\* The Decl with its ignored annotations taken away.
WithoutIgnored(decl) ==
  [decl EXCEPT !.annotations = SelectSeq(@, LAMBDA a : ~IgnoredAnnotation(a))]

AllAnnotationsIgnored(decl) ==
  \A i \in DOMAIN decl.annotations : IgnoredAnnotation(decl.annotations[i])

\* The database held an entry of the visited configuration on the visited
\* Declaration before the visit.
EntryExisted ==
  /\ DeclarationExisted
  /\ visit.type \in DOMAIN ExistingDeclaration.availability

\* C31: an annotation with an unrecognised prefix, or one that does not
\* split on "=" into exactly two fragments, is ignored without an error,
\* whatever its operand is: the visit ends as the visit of the same Decl
\* without these annotations ends, with the same database.  A Decl that
\* reaches the database code with no annotation, or only ignored ones, is
\* recorded: the process runs on, hasDeclaration is true of its Symbol for
\* the configuration, and the entry the visit created is the empty record.
C31_UnknownAnnotationsIgnored ==
  visit.op = "VisitDecl" =>
    /\ LET clean == VisitDecl(visit.before, visit.type, WithoutIgnored(visit.decl))
       IN  /\ symbols = clean.symbols
           /\ exit_status = IF clean.status = "continue" THEN "running"
                            ELSE clean.status
    /\ (/\ Classify(visit.decl) = "record"
        /\ AllAnnotationsIgnored(visit.decl)
        /\ ~(DeclarationExisted /\ FlagsVary))
       => /\ exit_status = "running"
          /\ VisitedName \in DOMAIN symbols
          /\ hasDeclaration(symbols[VisitedName], visit.type)
          /\ ~EntryExisted => RecordedEntry = NoAvailability

\* A Decl with three ignored annotations, two of them with an operand that
\* is not an integer, was visited after another Decl was recorded: its
\* entry is new and empty and the process runs on.
C31_Witness ==
  /\ visit.op = "VisitDecl"
  /\ Classify(visit.decl) = "record"
  /\ Len(visit.decl.annotations) = 3
  /\ AllAnnotationsIgnored(visit.decl)
  /\ \E i, j \in DOMAIN visit.decl.annotations :
       /\ i # j
       /\ OperandNotInteger(visit.decl.annotations[i])
       /\ OperandNotInteger(visit.decl.annotations[j])
  /\ visit.before # EmptyMap
  /\ ~EntryExisted
  /\ exit_status = "running"
  /\ RecordedEntry = NoAvailability

(***************************************************************************)
(* Claims about several annotations on one declaration.                    *)
(***************************************************************************)
\* The field an annotation prefix writes.
FieldOf(prefix) ==
  CASE prefix = "deprecated_in" -> "deprecated"
    [] prefix = "obsoleted_in"  -> "obsoleted"
    [] OTHER                    -> "introduced"

\* The slots an annotation prefix writes.
SlotsOf(prefix) ==
  CASE prefix \in {"introduced_in", "deprecated_in", "obsoleted_in"} -> {"global"}
    [] prefix = "introduced_in_arm"  -> {"arm"}
    [] prefix = "introduced_in_mips" -> {"mips"}
    [] prefix = "introduced_in_x86"  -> {"x86"}
    [] prefix = "introduced_in_32"   -> {"arm", "mips", "x86"}
    [] prefix = "introduced_in_64"   -> {"arm64", "mips64", "x86_64"}

\* C32: an annotation prefix=N is applied without an error whatever the
\* record holds already: every field it targets holds N afterwards, also
\* where an earlier annotation of the same declaration had written another
\* value; and when any annotation of the pool is applied just before it, in
\* attribute order, the fields it targets still end up with N.
C32_LastAnnotationWins ==
  \A prefix \in RecognisedPrefixes :
    AppliedNumeral(prefix) =>
      /\ ~annot.failed
      /\ \A slot \in SlotsOf(prefix) :
           SlotOf(annot.availability, slot)[FieldOf(prefix)] = AppliedOperand
      /\ \A earlier \in AnnotationPool :
           LET both == ParseAnnotations(annot.before, annot.type,
                                        <<earlier, annot.annotation>>)
           IN  ~ApplyAnnotation(annot.before, annot.type, earlier).failed =>
                 /\ ~both.failed
                 /\ \A slot \in SlotsOf(prefix) :
                      SlotOf(both.availability, slot)[FieldOf(prefix)] = AppliedOperand

\* introduced_in_arm=9 was applied to a record in which introduced_in_32=21
\* had been applied: arm holds 9, mips and x86 still hold 21.
C32_Witness ==
  /\ AppliedNumeral("introduced_in_arm")
  /\ AppliedOperand = 9
  /\ ~annot.failed
  /\ \A slot \in {"arm", "mips", "x86"} : SlotOf(annot.before, slot).introduced = 21
  /\ SlotOf(annot.availability, "arm").introduced = 9
  /\ SlotOf(annot.availability, "mips").introduced = 21
  /\ SlotOf(annot.availability, "x86").introduced = 21

(***************************************************************************)
(* Claims about the progress of the concurrent ingestion.                  *)
(***************************************************************************)
\* No ingestion call has hit an authoring defect.
NoDefect == exit_status = "running"

AllReturned == \A w \in Workers : pc[w] = "returned"

\* Every Decl a worker visited that qualifies for the database has the
\* worker's configuration on its Declaration.
EveryVisitRecorded ==
  \A v \in RecordedVisits :
    LET n == getDeclName(VisitedDecl(v))
        l == VisitedDecl(v).location
    IN  /\ n \in DOMAIN symbols
        /\ l \in DOMAIN symbols[n].declarations
        /\ JobType(v[1]) \in DOMAIN symbols[n].declarations[l].availability

\* C33: unless an ingestion call hits an authoring defect, every worker that
\* waits for the lock gets it, and every worker that holds it finishes its
\* traversal and returns; when all calls have returned the lock is free and
\* every configuration is recorded on every qualifying Decl of its tree.
C33_EveryCallCompletes ==
  /\ \A w \in Workers :
       /\ (pc[w] = "idle") ~> (pc[w] = "traversing" \/ ~NoDefect)
       /\ (pc[w] = "traversing") ~> (pc[w] = "returned" \/ ~NoDefect)
  /\ [](AllReturned => (mutex = NoOwner /\ EveryVisitRecorded))

\* All calls have returned without a defect, each after recording at least
\* one Decl, and the lock is free.
C33_Witness ==
  /\ AllReturned
  /\ NoDefect
  /\ mutex = NoOwner
  /\ \A w \in Workers : \E v \in RecordedVisits : v[1] = w
  /\ EveryVisitRecorded

(***************************************************************************)
(* Claims about the end of the run.                                        *)
(***************************************************************************)
\* Visiting the Decl on the database ends the process.
FatalOn(db, type, decl) == VisitDecl(db, type, decl).status # "continue"

\* The process has ended and stays as it is: the database is not written,
\* no worker takes the lock, visits a Decl or returns.
RunIsOver ==
  ~NoDefect => UNCHANGED <<symbols, mutex, pc, visited, exit_status>>

\* C34: when an ingestion call has hit a fatal authoring error, the worker
\* that hit it holds the lock and the defective Decl is the last one it
\* visited; a tree in which a Decl follows the defective one is traversed
\* to the same end with the same database, so that Decl is not ingested;
\* and from then on no step changes the database, lets a worker enter or
\* continue a traversal, or returns from one.
C34_FatalErrorEndsTheRun ==
  /\ [](~NoDefect =>
          /\ mutex # NoOwner
          /\ pc[mutex] = "traversing"
          /\ visited[mutex] # <<>>
          /\ LET defective == visited[mutex][Len(visited[mutex])]
             IN  /\ VisitDecl(symbols, JobType(mutex), defective) =
                      [status |-> exit_status, symbols |-> symbols]
                 /\ \A next \in DeclPool :
                      TraverseDecl(symbols, JobType(mutex), <<defective, next>>) =
                        [status |-> exit_status, symbols |-> symbols])
  /\ [][RunIsOver]_vars

\* A worker has hit a malformed annotation after recording a Decl, while
\* the other worker had not entered its call yet.
C34_Witness ==
  /\ exit_status = "errx"
  /\ mutex # NoOwner
  /\ Len(visited[mutex]) = 2
  /\ Classify(visited[mutex][1]) = "record"
  /\ CarriesMalformedOperand(visited[mutex][2])
  /\ symbols # EmptyMap
  /\ \E w \in Workers : pc[w] = "idle"

(***************************************************************************)
(* Claims about symbol names.                                              *)
(***************************************************************************)
\* The name the claim gives a qualifying Decl.
SymbolNameOf(decl) ==
  IF decl.should_mangle THEN decl.mangled
  ELSE IF decl.identifier # NoIdentifier THEN decl.identifier
  ELSE "<error>"

\* The Decl has neither a mangled name nor an identifier.
Nameless(decl) == ~decl.should_mangle /\ decl.identifier = NoIdentifier

\* The visit recorded the Decl.
Recorded == ReachedDatabase /\ exit_status = "running"

\* C35: a Decl that is recorded is recorded under its mangled name when
\* mangling applies, else under its identifier, else under "<error>": that
\* name is the only key the visit can have added, and the Declaration at
\* the Decl's location under it carries the name.  So the Decls that have
\* neither name are Declarations of the one Symbol "<error>", whose
\* reduction folds the records of all of them together and fails when two
\* of them conflict.
C35_SymbolNaming ==
  /\ Recorded =>
       LET n == SymbolNameOf(visit.decl)
       IN  /\ DOMAIN symbols = DOMAIN visit.before \cup {n}
           /\ symbols[n].name = n
           /\ visit.decl.location \in DOMAIN symbols[n].declarations
           /\ symbols[n].declarations[visit.decl.location].name = n
           /\ visit.type \in
                DOMAIN symbols[n].declarations[visit.decl.location].availability
           /\ Nameless(visit.decl) => n = "<error>"
  /\ "<error>" \in DOMAIN symbols =>
       LET r == Symbol_calculateAvailability(symbols["<error>"])
       IN  /\ r.ret = NonConflicting(ProtoRecords(symbols["<error>"]))
           /\ r.ret => r.avail = SlotwiseJoin(ProtoRecords(symbols["<error>"]))

\* Two Decls without a name of any kind, at two locations, were recorded
\* after a mangled one: "<error>" holds both, their records conflict and
\* the reduction of "<error>" fails; the mangled name is a Symbol of its own.
C35_Witness ==
  /\ Recorded
  /\ Nameless(visit.decl)
  /\ visit.decl.kind = "function"
  /\ DOMAIN symbols = {"_Z3foov", "<error>"}
  /\ DOMAIN symbols["<error>"].declarations = {HeaderLine1, HeaderLine5}
  /\ ~Symbol_calculateAvailability(symbols["<error>"]).ret

(***************************************************************************)
(* Claims about the rendering of a whole availability record.              *)
(***************************************************************************)
\* The rendering of one slot's values: its set fields, future first.
ValuesText(av) ==
  CommaJoined(FieldTexts(av, <<"future", "introduced", "deprecated", "obsoleted">>))

\* "<arch>: <rendering>" for every non-empty architecture slot, in the order
\* of the architectures, from the i-th on.
RECURSIVE ArchTexts(_, _)
ArchTexts(decl_av, i) ==
  IF i > Len(supported_archs) THEN <<>>
  ELSE (IF decl_av.arch_availability[supported_archs[i]] # NoValues
          THEN <<supported_archs[i] \o ": " \o
                   ValuesText(decl_av.arch_availability[supported_archs[i]])>>
          ELSE <<>>)
       \o ArchTexts(decl_av, i + 1)

RenderedAvailability == rendered.op = "to_string(DeclarationAvailability)"

\* C36: the rendering of a DeclarationAvailability is the rendering of the
\* global slot, if that is non-empty, followed by "<arch>: <rendering>" for
\* each non-empty architecture slot in the order of the architectures, all
\* joined by ", " with no separator at the end; a record all of whose slots
\* are empty renders as "no availability", not as the empty string.
C36_AvailabilityRendering ==
  RenderedAvailability =>
    LET parts == (IF rendered.input.global_availability # NoValues
                    THEN <<ValuesText(rendered.input.global_availability)>>
                    ELSE <<>>)
                 \o ArchTexts(rendered.input, 1)
    IN  /\ rendered.input = NoAvailability <=> rendered.text = "no availability"
        /\ rendered.input # NoAvailability => rendered.text = CommaJoined(parts)
        /\ rendered.text # ""

\* A record with an empty global slot and two architecture slots set was
\* rendered: arm comes before x86 and nothing precedes arm.
C36_Witness ==
  /\ RenderedAvailability
  /\ rendered.input.global_availability = NoValues
  /\ rendered.input.arch_availability["arm"] = AvailabilityValues(FALSE, 21, 0, 0)
  /\ rendered.input.arch_availability["x86"] = AvailabilityValues(TRUE, 9, 0, 0)
  /\ rendered.text = "arm: introduced = 21, x86: future, introduced = 9"

====
